---------------------------- MODULE Spec2Model ----------------------------
(***************************************************************************)
(* Model of the retry utilities of the aws-account-name browser extension  *)
(* (retry-utils.js): validateConfig, calculateDelay, retryWithBackoff,     *)
(* waitForDOMReady and waitForElement, and of the content scripts that use *)
(* them.                                                                   *)
(*                                                                         *)
(* Twelve specifications share the module:                                 *)
(*   Spec      one retryWithBackoff invocation driven by an arbitrary      *)
(*             probe and the timer queue;                                  *)
(*   SpecPure  the pure functions validateConfig and calculateDelay        *)
(*             applied to configuration objects drawn from a grid;         *)
(*   SpecGate  waitForDOMReady invocations against the document life       *)
(*             cycle;                                                      *)
(*   SpecPoll  one waitForElement invocation against a DOM query that      *)
(*             finds the element, finds nothing or raises;                 *)
(*   SpecAttempts one invocation of either kind, retryWithBackoff or       *)
(*             waitForElement;                                             *)
(*   SpecPages the two content scripts (console-content.js and             *)
(*             portal-content.js), each on its own page;                   *)
(*   SpecPortal the portal script alone, its debounce timer firing in the  *)
(*             end;                                                        *)
(*   SpecRestart the console script with overlapping invocations of init;  *)
(*   SpecInject injectAccountNameDisplay run repeatedly on an account menu;*)
(*   SpecStore the storage service and handleMessage of the background     *)
(*             worker against chrome.storage.local;                        *)
(*   SpecWait  one waitForAccountElement(timeout) invocation, with or      *)
(*             without the retry utilities;                                *)
(*   SpecDebounce the debounce of the portal script's MutationObserver in  *)
(*             time.                                                       *)
(* Each specification keeps the variables of the others at their idle      *)
(* values.                                                                 *)
(***************************************************************************)
EXTENDS Integers, Sequences, FiniteSets, TLC

VARIABLES
    \* ---- retryWithBackoff(fn, config): one invocation
    config,       \* the config argument as passed by the caller
    pc,           \* position of the async function
    cfg,          \* the local `config` after the validation fallback
    attempt,      \* loop variable `attempt`
    lastResult,   \* local `lastResult`
    settled,      \* the returned promise: "pending", "resolved" or "rejected"
    value,        \* the value the promise settled with
    calls,        \* history: outcome of every fn() call, in order
    nCalls,       \* history: number of fn() calls started
    firstCallTime,  \* clock value at the first fn() call (-1: none yet)
    secondCallTime, \* clock value at the second fn() call (-1: none yet)
    sleeps,       \* history: every duration handed to setTimeout
    log,          \* the console entries written by the invocation
    now,          \* the clock (ms)
    wake,         \* due time of the pending timer
    \* ---- pure functions
    arg,          \* config object handed to the pure function
    idx,          \* attemptNumber handed to calculateDelay
    ret,          \* what the last pure call returned
    \* ---- waitForDOMReady
    readyState,   \* document.readyState
    dclFired,     \* DOMContentLoaded has been dispatched
    listeners,    \* DOMContentLoaded listeners on the document, per gate
    gate,         \* per waitForDOMReady call: its promise and its history
    \* ---- waitForElement(selector, timeout): one invocation
    poller,       \* its locals, its promise, the clock and its history
    \* ---- the content scripts on their page
    page,         \* the page: document, location, transport, what is injected
    runs,         \* console-content: one record per init() invocation
    portal,       \* portal-content: the script's state and history
    \* ---- injectAccountNameDisplay on an account menu
    dom,          \* the menu's text nodes, the arguments, the texts after each run
    \* ---- the storage service and the message handler of the background worker
    store,        \* chrome.storage.local and the history of the calls made
    \* ---- waitForAccountElement(timeout): one invocation
    waiter,       \* its argument, the path it takes, its promise and the clock
    \* ---- observePortalChanges(callback): the observer it registers
    observer      \* its debounce timer, the clock, and its history

retryVars == <<config, pc, cfg, attempt, lastResult, settled, value, calls,
               nCalls, firstCallTime, secondCallTime, sleeps, log, now, wake>>
pureVars == <<arg, idx, ret>>
gateVars == <<readyState, dclFired, listeners, gate>>
pollVars == <<poller>>
pageVars == <<page, runs, portal>>
domVars == <<dom>>
storeVars == <<store>>
waitVars == <<waiter>>
debVars == <<observer>>
vars == <<retryVars, pureVars, gateVars, pollVars, pageVars, domVars,
          storeVars, waitVars, debVars>>

-----------------------------------------------------------------------------
(* Bounds of the model.                                                    *)

\* largest maxAttempts of the generated configs
MaxAttempts == 3
\* largest initialDelay of the generated configs
MaxInitialDelay == 2
\* largest backoffMultiplier of the generated configs
MaxMultiplier == 2
\* largest attempt index handed to calculateDelay on its own
MaxIndex == 4
\* a timer fires between 0 and MaxLate ms after it is due
MaxLate == 1
\* number of mutation notifications delivered to the portal's observer
MaxNotifications == 3
\* number of waitForDOMReady calls
MaxGates == 3
\* largest maxDelay of the generated configs
MaxDelay == 4
\* largest number in a field of the configs handed to the pure functions
MaxField == 3
\* the timeouts handed to waitForElement are multiples of 50 ms up to
\* 50 * MaxTimeoutSteps (and the default)
MaxTimeoutSteps == 6
\* the timers of one waitForElement invocation are late by at most this many
\* ms in total
MaxDrift == 2
\* init() invocations of the console script in one behaviour
MaxRuns == 2
\* location changes of the console page in one behaviour
MaxNav == 1
\* DOM mutation batches delivered to the portal script's observer
MaxMutations == 2
\* text nodes under the account menu button, and pieces of text per node
MaxNodes == 2
MaxPieces == 2
\* successive injectAccountNameDisplay calls on one menu
MaxInjections == 2
\* records in one batch handed to storeAccounts
MaxBatch == 2

-----------------------------------------------------------------------------
(* JavaScript values.  A value is a record [t, v]: t is the kind, v the    *)
(* integer of a kind "num" value (0 otherwise).                            *)

Num(n) == [t |-> "num", v |-> n]
NaN == [t |-> "nan", v |-> 0]
Undefined == [t |-> "undefined", v |-> 0]
Str == [t |-> "string", v |-> 0]

\* typeof x === 'number'   (NaN is a number)
TypeofNumber(x) == x.t \in {"num", "nan"}

\* x < y, x <= y on numbers: every comparison with NaN is false
JsLt(x, y) == x.t = "num" /\ y.t = "num" /\ x.v < y.v
JsLe(x, y) == x.t = "num" /\ y.t = "num" /\ x.v <= y.v

\* x * y, x + y, x - y on numbers: NaN propagates
JsMul(x, y) == IF x.t = "num" /\ y.t = "num" THEN Num(x.v * y.v) ELSE NaN
JsAdd(x, y) == IF x.t = "num" /\ y.t = "num" THEN Num(x.v + y.v) ELSE NaN
JsSub(x, y) == IF x.t = "num" /\ y.t = "num" THEN Num(x.v - y.v) ELSE NaN

\* Math.pow(x, n) for an integer n >= 0: Math.pow(NaN, 0) is 1
MathPow(x, n) ==
    IF n = 0 THEN Num(1)
    ELSE IF x.t = "num" THEN Num(x.v ^ n) ELSE NaN

\* Math.min(x, y): NaN if either is NaN
MathMin(x, y) ==
    IF x.t = "num" /\ y.t = "num"
    THEN (IF x.v <= y.v THEN x ELSE y)
    ELSE NaN

-----------------------------------------------------------------------------
(* Configuration objects.  kind is what the argument is: an "object" with  *)
(* the five fields, or null / undefined / a string (no fields).            *)

Config(ma, id, md, bm, bt) ==
    [kind |-> "object", maxAttempts |-> ma, initialDelay |-> id,
     maxDelay |-> md, backoffMultiplier |-> bm, backoffType |-> bt]

NonObject(k) ==
    [kind |-> k, maxAttempts |-> Undefined, initialDelay |-> Undefined,
     maxDelay |-> Undefined, backoffMultiplier |-> Undefined,
     backoffType |-> "undefined"]

\* RETRY_CONFIG.portal
RETRY_CONFIG_portal == Config(Num(5), Num(200), Num(2000), Num(2), "exponential")

\* RETRY_CONFIG.console
RETRY_CONFIG_console == Config(Num(5), Num(500), Num(2500), Num(500), "linear")

\* validateConfig(config): each test of the source returns false when it
\* fires, so the function returns true when none of them fires.
validateConfig(c) ==
    /\ ~(c.kind # "object")
    /\ ~(~TypeofNumber(c.maxAttempts) \/ JsLe(c.maxAttempts, Num(0)))
    /\ ~(~TypeofNumber(c.initialDelay) \/ JsLt(c.initialDelay, Num(0)))
    /\ ~(~TypeofNumber(c.maxDelay) \/ JsLt(c.maxDelay, Num(0)))
    /\ ~(~TypeofNumber(c.backoffMultiplier) \/ JsLe(c.backoffMultiplier, Num(0)))
    /\ ~JsLt(c.maxDelay, c.initialDelay)

calculateDelay_NoCap(attemptNumber, c) ==
    IF c.backoffType = "exponential"
    THEN JsMul(c.initialDelay, MathPow(c.backoffMultiplier, attemptNumber))
    ELSE JsAdd(c.initialDelay, JsMul(c.backoffMultiplier, Num(attemptNumber)))

calculateDelay_Swapped(attemptNumber, c) ==
    MathMin(IF c.backoffType = "linear"
            THEN JsMul(c.initialDelay, MathPow(c.backoffMultiplier, attemptNumber))
            ELSE JsAdd(c.initialDelay, JsMul(c.backoffMultiplier, Num(attemptNumber))),
            c.maxDelay)

\* calculateDelay(attemptNumber, config)
calculateDelay(attemptNumber, c) ==
    LET delay == IF c.backoffType = "exponential"
                 THEN JsMul(c.initialDelay,
                            MathPow(c.backoffMultiplier, attemptNumber))
                 ELSE JsAdd(c.initialDelay,
                            JsMul(c.backoffMultiplier, Num(attemptNumber)))
    IN  MathMin(delay, c.maxDelay)

-----------------------------------------------------------------------------
(* retryWithBackoff(fn, config)                                            *)

\* What one fn() call can do: return a value or raise.  "{data:x}" is the
\* truthy value, "null" and "0" are falsy.
ResultValues == {"{data:x}", "null", "0"}
Outcomes == [k : {"return"}, v : ResultValues] \cup {[k |-> "throw", v |-> "Error"]}

\* if (result)
Truthy(v) == v \notin {"null", "0", "undefined", "false", "NaN", ""}

\* A console entry: e the kind of entry, n the 1-based attempt number
\* `attempt + 1` (0 when the entry carries none), m the maxAttempts it
\* prints, d the delay it prints.
Entry_ZeroBased(e, n, m, d) ==
    [e |-> e, n |-> IF n > 0 THEN n - 1 ELSE n, m |-> m, d |-> d]

Entry(e, n, m, d) == [e |-> e, n |-> n, m |-> m, d |-> d]

\* if (!validateConfig(config)) { console.warn(...); config = RETRY_CONFIG.portal; }
EffectiveConfig_ConsoleDefault(c) ==
    IF ~validateConfig(c) THEN RETRY_CONFIG_console ELSE c

EffectiveConfig(c) == IF ~validateConfig(c) THEN RETRY_CONFIG_portal ELSE c

\* for (...; attempt < maxAttempts; ...)
LoopContinues_OffByOne(a, c) == JsLe(Num(a), c.maxAttempts)

LoopContinues(a, c) == JsLt(Num(a), c.maxAttempts)

\* if (attempt < maxAttempts - 1)
NotLastAttempt_Always(a, c) == TRUE

NotLastAttempt_Never(a, c) == FALSE

NotLastAttempt(a, c) == JsLt(Num(a), JsSub(c.maxAttempts, Num(1)))

\* The body of the try block after `await fn()` has returned `result`:
\* what the invocation does next.
OnResult_NoEarlyReturn(result, a, c, last) ==
    IF NotLastAttempt(a, c)
    THEN [next |-> "sleep", value |-> result, lastResult |-> result,
          delay |-> calculateDelay(a, c),
          log |-> <<Entry("retry", a + 1, Undefined, calculateDelay(a, c))>>]
    ELSE [next |-> "continue", value |-> result, lastResult |-> result,
          delay |-> Undefined, log |-> <<>>]

OnResult(result, a, c, last) ==
    IF Truthy(result)
    THEN [next |-> "return", value |-> result, lastResult |-> last,
          delay |-> Undefined,
          log |-> <<Entry("success", a + 1, Undefined, Undefined)>>]
    ELSE IF NotLastAttempt(a, c)
    THEN [next |-> "sleep", value |-> result, lastResult |-> result,
          delay |-> calculateDelay(a, c),
          log |-> <<Entry("retry", a + 1, Undefined, calculateDelay(a, c))>>]
    ELSE [next |-> "continue", value |-> result, lastResult |-> result,
          delay |-> Undefined, log |-> <<>>]

\* `await fn()` raised: the catch block.
OnError_ForgetsLast(error, a, c, last) ==
    IF NotLastAttempt(a, c)
    THEN [next |-> "sleep", value |-> error, lastResult |-> "null",
          delay |-> calculateDelay(a, c),
          log |-> <<Entry("error", a + 1, Undefined, Undefined),
                    Entry("retry-after-error", 0, Undefined, calculateDelay(a, c))>>]
    ELSE [next |-> "continue", value |-> error, lastResult |-> "null",
          delay |-> Undefined,
          log |-> <<Entry("error", a + 1, Undefined, Undefined)>>]

OnError_Uncaught(error, a, c, last) ==
    [next |-> "throw", value |-> error, lastResult |-> last,
     delay |-> Undefined, log |-> <<>>]

OnError(error, a, c, last) ==
    IF NotLastAttempt(a, c)
    THEN [next |-> "sleep", value |-> error, lastResult |-> last,
          delay |-> calculateDelay(a, c),
          log |-> <<Entry("error", a + 1, Undefined, Undefined),
                    Entry("retry-after-error", 0, Undefined, calculateDelay(a, c))>>]
    ELSE [next |-> "continue", value |-> error, lastResult |-> last,
          delay |-> Undefined,
          log |-> <<Entry("error", a + 1, Undefined, Undefined)>>]

\* return lastResult, after the loop
ExhaustedValue_AlwaysNull(last) == "null"

ExhaustedValue(last) == last

\* setTimeout(resolve, delay): the timer is due `delay` ms from now; a delay
\* that is NaN or negative is taken as 0.
TimeoutMs(d) == IF d.t = "num" /\ d.v > 0 THEN d.v ELSE 0

\* The head of the for loop at index a, with the console entries lg written
\* so far in this step, at time t: either the next fn() call starts, or the loop is
\* left and the promise resolves with lastResult.
LoopHead(a, last, lg, t) ==
    /\ attempt' = a
    /\ lastResult' = last
    /\ IF LoopContinues(a, cfg')
       THEN /\ pc' = "awaiting"
            /\ nCalls' = nCalls + 1
            /\ firstCallTime' = IF nCalls = 0 THEN t ELSE firstCallTime
            /\ secondCallTime' = IF nCalls = 1 THEN t ELSE secondCallTime
            /\ log' = lg \o <<Entry("attempt", a + 1, cfg'.maxAttempts, Undefined)>>
            /\ UNCHANGED <<settled, value>>
       ELSE /\ pc' = "done"
            /\ settled' = "resolved"
            /\ value' = ExhaustedValue(last)
            /\ log' = lg \o <<Entry("exhausted", 0, cfg'.maxAttempts, Undefined)>>
            /\ UNCHANGED <<nCalls, firstCallTime, secondCallTime>>

\* The caller invokes retryWithBackoff(fn, config): the function runs up to
\* its first await.
Invoke ==
    /\ pc = "start"
    /\ cfg' = EffectiveConfig(config)
    /\ LoopHead(0, "null",
                IF ~validateConfig(config)
                THEN <<Entry("warn-config", 0, Undefined, Undefined)>>
                ELSE <<>>,
                now)
    /\ UNCHANGED <<config, calls, sleeps, now, wake>>

\* The awaited fn() settles with outcome o and the function runs up to its
\* next await or to its end.
ProbeSettles(o) ==
    /\ pc = "awaiting"
    /\ calls' = Append(calls, o)
    /\ LET h == IF o.k = "return"
                THEN OnResult(o.v, attempt, cfg, lastResult)
                ELSE OnError(o.v, attempt, cfg, lastResult)
       IN  CASE h.next = "return" ->
                  /\ pc' = "done"
                  /\ settled' = "resolved"
                  /\ value' = h.value
                  /\ log' = log \o h.log
                  /\ UNCHANGED <<cfg, attempt, lastResult, nCalls, firstCallTime,
                                 secondCallTime, sleeps, now, wake>>
             [] h.next = "throw" ->
                  /\ pc' = "done"
                  /\ settled' = "rejected"
                  /\ value' = h.value
                  /\ log' = log \o h.log
                  /\ UNCHANGED <<cfg, attempt, lastResult, nCalls, firstCallTime,
                                 secondCallTime, sleeps, now, wake>>
             [] h.next = "sleep" ->
                  /\ pc' = "sleeping"
                  /\ lastResult' = h.lastResult
                  /\ sleeps' = Append(sleeps, h.delay)
                  /\ wake' = now + TimeoutMs(h.delay)
                  /\ log' = log \o h.log
                  /\ UNCHANGED <<cfg, attempt, settled, value, nCalls,
                                 firstCallTime, secondCallTime, now>>
             [] h.next = "continue" ->
                  /\ UNCHANGED <<cfg, sleeps, now, wake>>
                  /\ LoopHead(attempt + 1, h.lastResult, log \o h.log, now)
    /\ UNCHANGED config

\* The pending timer fires, at its due time or up to MaxLate ms later, and
\* the loop goes on with attempt++.
TimerFires(late) ==
    /\ pc = "sleeping"
    /\ now' = wake + late
    /\ UNCHANGED <<config, cfg, calls, sleeps, wake>>
    /\ LoopHead(attempt + 1, lastResult, log, wake + late)

-----------------------------------------------------------------------------
(* Inputs and idle values.                                                 *)

\* Configs that satisfy the RetryConfig invariants, generated over the bounds.
GridConfigs ==
    {c \in {Config(Num(ma), Num(id), Num(md), Num(bm), bt) :
               ma \in 1..MaxAttempts, id \in 0..MaxInitialDelay,
               md \in 0..MaxDelay, bm \in 1..MaxMultiplier,
               bt \in {"exponential", "linear"}} :
        c.maxDelay.v >= c.initialDelay.v}

\* maxAttempts=3, initialDelay=200, exponential x2, maxDelay=2000
ScenarioB == Config(Num(3), Num(200), Num(2000), Num(2), "exponential")

\* Arguments of other shapes: no object, a missing or mistyped field, a field
\* out of range, NaN fields.
OddConfigs ==
    {NonObject("null"), NonObject("undefined"), NonObject("string"),
     Config(Undefined, Num(1), Num(4), Num(2), "exponential"),
     Config(Num(0), Num(1), Num(4), Num(2), "exponential"),
     Config(Num(2), Num(3), Num(1), Num(3), "linear"),
     Config(Num(2), Num(1), Num(4), Num(0), "linear"),
     Config(Num(2), Str, Num(4), Num(2), "exponential"),
     Config(NaN, Num(1), Num(4), Num(2), "exponential"),
     Config(Num(2), Num(1), NaN, Num(2), "exponential"),
     Config(Num(2), Num(1), Num(4), Num(2), "undefined")}

RetryInputs ==
    GridConfigs \cup OddConfigs
        \cup {ScenarioB, RETRY_CONFIG_portal, RETRY_CONFIG_console}

FieldValues == {Num(n) : n \in (-1)..MaxField} \cup {NaN, Undefined, Str}

PureInputs ==
    {Config(ma, id, md, bm, bt) :
        ma \in FieldValues, id \in FieldValues, md \in FieldValues,
        bm \in FieldValues, bt \in {"exponential", "linear", "undefined"}}
    \cup {NonObject("null"), NonObject("undefined"), NonObject("string"),
          ScenarioB, RETRY_CONFIG_portal, RETRY_CONFIG_console}

NoReturn == [fn |-> "none", i |-> 0, bool |-> FALSE, num |-> Undefined,
             before |-> NonObject("undefined")]

RetryIdle ==
    /\ config = NonObject("undefined")
    /\ pc = "idle"
    /\ cfg = NonObject("undefined")
    /\ attempt = 0
    /\ lastResult = "null"
    /\ settled = "pending"
    /\ value = "undefined"
    /\ calls = <<>>
    /\ nCalls = 0
    /\ firstCallTime = -1
    /\ secondCallTime = -1
    /\ sleeps = <<>>
    /\ log = <<>>
    /\ now = 0
    /\ wake = 0

PureIdle ==
    /\ arg = NonObject("undefined")
    /\ idx = 0
    /\ ret = NoReturn

GateIdle ==
    /\ readyState = "complete"
    /\ dclFired = TRUE
    /\ listeners = <<>>
    /\ gate = <<>>

PollIdle == poller = [pc |-> "idle"]

DomIdle == dom = [pc |-> "idle"]
StoreIdle == store = [pc |-> "idle"]
WaitIdle == waiter = [pc |-> "idle"]
DebIdle == observer = [pc |-> "idle"]

PagesIdle ==
    /\ page = [kind |-> "none"]
    /\ runs = <<>>
    /\ portal = [pc |-> "idle"]

-----------------------------------------------------------------------------
(* Spec: one retryWithBackoff invocation.                                  *)

Init ==
    /\ config \in RetryInputs
    /\ pc = "start"
    /\ cfg = NonObject("undefined")
    /\ attempt = 0
    /\ lastResult = "null"
    /\ settled = "pending"
    /\ value = "undefined"
    /\ calls = <<>>
    /\ nCalls = 0
    /\ firstCallTime = -1
    /\ secondCallTime = -1
    /\ sleeps = <<>>
    /\ log = <<>>
    /\ now = 0
    /\ wake = 0
    /\ PureIdle
    /\ GateIdle
    /\ PollIdle
    /\ PagesIdle
    /\ DomIdle
    /\ StoreIdle
    /\ WaitIdle
    /\ DebIdle

Next ==
    \/ Invoke /\ UNCHANGED <<pureVars, gateVars, pollVars, pageVars, domVars, storeVars, waitVars, debVars>>
    \/ \E o \in Outcomes : ProbeSettles(o) /\ UNCHANGED <<pureVars, gateVars, pollVars, pageVars, domVars, storeVars, waitVars, debVars>>
    \/ \E late \in 0..MaxLate : TimerFires(late) /\ UNCHANGED <<pureVars, gateVars, pollVars, pageVars, domVars, storeVars, waitVars, debVars>>

Spec == Init /\ [][Next]_vars

-----------------------------------------------------------------------------
(* SpecPure: validateConfig and calculateDelay on their own.               *)

\* every field calculateDelay reads is a number
NumericFields(c) ==
    /\ c.kind = "object"
    /\ TypeofNumber(c.initialDelay)
    /\ TypeofNumber(c.maxDelay)
    /\ TypeofNumber(c.backoffMultiplier)

CallValidateConfig ==
    /\ ret' = [fn |-> "validateConfig", i |-> 0, bool |-> validateConfig(arg),
               num |-> Undefined, before |-> arg]
    /\ UNCHANGED <<arg, idx>>

CallCalculateDelay(i) ==
    /\ NumericFields(arg)
    /\ idx' = i
    /\ ret' = [fn |-> "calculateDelay", i |-> i, bool |-> FALSE,
               num |-> calculateDelay(i, arg), before |-> arg]
    /\ UNCHANGED arg

InitPure ==
    /\ arg \in PureInputs
    /\ idx = 0
    /\ ret = NoReturn
    /\ RetryIdle
    /\ GateIdle
    /\ PollIdle
    /\ PagesIdle
    /\ DomIdle
    /\ StoreIdle
    /\ WaitIdle
    /\ DebIdle

NextPure ==
    \/ CallValidateConfig /\ UNCHANGED <<retryVars, gateVars, pollVars, pageVars, domVars, storeVars, waitVars, debVars>>
    \/ \E i \in 0..MaxIndex : CallCalculateDelay(i) /\ UNCHANGED <<retryVars, gateVars, pollVars, pageVars, domVars, storeVars, waitVars, debVars>>

SpecPure == InitPure /\ [][NextPure]_vars

-----------------------------------------------------------------------------
(* Vocabulary of the properties.                                           *)

Min(a, b) == IF a <= b THEN a ELSE b

\* The RetryConfig invariants of the data model: an object whose four
\* numeric fields are numbers with maxAttempts >= 1, initialDelay >= 0,
\* backoffMultiplier > 0 and maxDelay >= initialDelay.
IsRetryConfig(c) ==
    /\ c.kind = "object"
    /\ c.maxAttempts.t = "num" /\ c.maxAttempts.v >= 1
    /\ c.initialDelay.t = "num" /\ c.initialDelay.v >= 0
    /\ c.maxDelay.t = "num" /\ c.maxDelay.v >= c.initialDelay.v
    /\ c.backoffMultiplier.t = "num" /\ c.backoffMultiplier.v > 0

\* min(initialDelay * backoffMultiplier^i, maxDelay), in integer arithmetic
ExponentialLaw(i, c) ==
    Min(c.initialDelay.v * (c.backoffMultiplier.v ^ i), c.maxDelay.v)

\* min(initialDelay + backoffMultiplier * i, maxDelay), in integer arithmetic
LinearLaw(i, c) ==
    Min(c.initialDelay.v + c.backoffMultiplier.v * i, c.maxDelay.v)

DelayLaw(i, c) ==
    IF c.backoffType = "exponential" THEN ExponentialLaw(i, c) ELSE LinearLaw(i, c)

\* a call that did not succeed: it raised or returned a falsy value
Failed(o) == o.k = "throw" \/ ~Truthy(o.v)
AllFailed == \A i \in 1..Len(calls) : Failed(calls[i])
AllReturnedNull == \A i \in 1..Len(calls) : calls[i] = [k |-> "return", v |-> "null"]
AllThrew == \A i \in 1..Len(calls) : calls[i].k = "throw"

\* the invocation ran out of attempts
Exhausted == pc = "done" /\ AllFailed

-----------------------------------------------------------------------------
(* Properties of retryWithBackoff (Spec).                                  *)

\* C1: with a config that validateConfig accepts and whose maxAttempts is an
\* integer m >= 1, a probe that fails on every call is never called more
\* than m times, and when the invocation has resolved it has been called
\* exactly m times.
C1_AttemptCountBound ==
    (validateConfig(config) /\ config.maxAttempts.t = "num" /\ AllFailed)
        => /\ nCalls <= config.maxAttempts.v
           /\ (pc = "done" => /\ nCalls = config.maxAttempts.v
                              /\ Len(calls) = config.maxAttempts.v)

C1_Witness ==
    /\ pc = "done" /\ settled = "resolved"
    /\ validateConfig(config) /\ config.maxAttempts = Num(3)
    /\ nCalls = 3
    /\ calls[1].k = "throw" /\ calls[2] = [k |-> "return", v |-> "0"]
    /\ calls[3] = [k |-> "return", v |-> "null"]

\* C2: once a call of the probe has returned a truthy value, that call is
\* the last one (the k-th call, k calls made), the promise is resolved with
\* exactly that value, and the only suspensions taken are the k-1 that
\* followed the earlier failed calls.
C2_EarlyTermination ==
    \A k \in 1..Len(calls) :
        ~Failed(calls[k])
            => /\ k = Len(calls) /\ nCalls = k
               /\ pc = "done" /\ settled = "resolved"
               /\ value = calls[k].v
               /\ Len(sleeps) = k - 1
               /\ ~ENABLED Next

C2_Witness ==
    /\ Len(calls) = 3 /\ ~Failed(calls[3])
    /\ IsRetryConfig(config) /\ config.maxAttempts.v = 3
    /\ settled = "resolved" /\ value = "{data:x}"

\* C3: the promise returned by retryWithBackoff is never rejected, whatever
\* the probe does and whatever the config argument is; when the function has
\* ended, the promise is resolved with a probe result or null, never with
\* the probe's error; and until then the invocation can always go on.
C3_NeverThrows ==
    /\ settled # "rejected"
    /\ pc = "done" => settled = "resolved" /\ value \in ResultValues
    /\ pc # "done" => settled = "pending" /\ ENABLED Next

C3_Witness ==
    /\ pc = "done" /\ settled = "resolved"
    /\ config = NonObject("undefined")
    /\ Len(calls) = 5 /\ AllThrew

\* C4: with a RetryConfig and a probe that fails on every call, the i-th
\* suspension is min-capped law delay(i-1, config), there is one suspension
\* per failed call among the first m-1 and none after the m-th; the second
\* call starts at least initialDelay after the first; and Scenario B with a
\* probe returning null gives delays 200, 400, three calls and null.
C4_DelaySequence ==
    (IsRetryConfig(config) /\ pc # "start" /\ AllFailed)
        => /\ Len(sleeps) = Min(Len(calls), config.maxAttempts.v - 1)
           /\ \A i \in 1..Len(sleeps) : sleeps[i] = Num(DelayLaw(i - 1, config))
           /\ (pc = "done" => Len(sleeps) = config.maxAttempts.v - 1)
           /\ (secondCallTime >= 0
                  => secondCallTime - firstCallTime >= config.initialDelay.v)
           /\ (config = ScenarioB /\ pc = "done" /\ AllReturnedNull
                  => /\ sleeps = <<Num(200), Num(400)>>
                     /\ nCalls = 3
                     /\ value = "null")

C4_Witness ==
    /\ config = ScenarioB /\ pc = "done" /\ AllReturnedNull
    /\ secondCallTime > firstCallTime + 200

LastReturned ==
    LET returned == {i \in 1..Len(calls) : calls[i].k = "return"}
    IN  IF returned = {} THEN "null"
        ELSE calls[CHOOSE i \in returned : \A j \in returned : j <= i].v

IsLogLine(entry) == entry.e # "error"

\* The lines that attempt i leaves in the log: its attempt line, and once
\* its call has settled, the success line, or the retry line carrying the
\* delay handed to setTimeout when a suspension follows.
LinesOfAttempt(i) ==
    <<[e |-> "attempt", n |-> i, m |-> cfg.maxAttempts, d |-> Undefined]>>
    \o (IF i > Len(calls) THEN <<>>
        ELSE IF calls[i].k = "return" /\ Truthy(calls[i].v)
        THEN <<[e |-> "success", n |-> i, m |-> Undefined, d |-> Undefined]>>
        ELSE IF i > Len(sleeps) THEN <<>>
        ELSE IF calls[i].k = "return"
        THEN <<[e |-> "retry", n |-> i, m |-> Undefined, d |-> sleeps[i]]>>
        ELSE <<[e |-> "retry-after-error", n |-> 0, m |-> Undefined,
                d |-> sleeps[i]]>>)

RECURSIVE LinesOfAttempts(_)
LinesOfAttempts(n) ==
    IF n = 0 THEN <<>> ELSE LinesOfAttempts(n - 1) \o LinesOfAttempt(n)

\* the invocation returned the truthy result of its last call
Succeeded ==
    /\ pc = "done" /\ calls # <<>>
    /\ calls[Len(calls)].k = "return" /\ Truthy(calls[Len(calls)].v)

\* C40: the console.log and console.warn lines of an invocation are, in
\* order: the fallback warning when the config argument is invalid, once,
\* before anything else; for each call of the probe, numbered from 1, an
\* attempt line with that number and maxAttempts, followed after a failed
\* attempt that is not the final one by one retry line carrying the delay
\* that is then taken; and, when the invocation has ended, exactly one
\* terminal line, the success line with the attempt number or the
\* exhaustion warning.  Every failed attempt but the final one has its
\* retry line.
C40_LogShape ==
    pc # "start" =>
        /\ SelectSeq(log, IsLogLine)
              = (IF ~validateConfig(config)
                 THEN <<[e |-> "warn-config", n |-> 0, m |-> Undefined,
                         d |-> Undefined]>>
                 ELSE <<>>)
                \o LinesOfAttempts(nCalls)
                \o (IF pc = "done" /\ ~Succeeded
                    THEN <<[e |-> "exhausted", n |-> 0, m |-> cfg.maxAttempts,
                            d |-> Undefined]>>
                    ELSE <<>>)
        /\ pc = "done" /\ calls # <<>> => Len(sleeps) = Len(calls) - 1
        /\ pc = "sleeping" => Len(sleeps) = Len(calls)
        /\ pc = "awaiting" => Len(sleeps) = Len(calls)

\* an invalid config, a falsy result, a raise and then success
C40_Witness ==
    /\ Succeeded
    /\ ~validateConfig(config)
    /\ Len(calls) = 3
    /\ calls[1].k = "return" /\ calls[2].k = "throw"
    /\ Len(SelectSeq(log, IsLogLine)) = 7

\* C6: with a config that validateConfig rejects the invocation runs with
\* RETRY_CONFIG.portal: the promise is not rejected, an always-failing probe
\* is called exactly 5 times and the suspensions are 200, 400, 800, 1600,
\* whatever the fields of the rejected config are.
C6_InvalidConfigFallsBackToPortal ==
    (~validateConfig(config) /\ pc # "start")
        => /\ cfg = RETRY_CONFIG_portal
           /\ settled # "rejected"
           /\ log[1].e = "warn-config"
           /\ AllFailed
                => /\ nCalls <= 5
                   /\ Len(sleeps) <= 4
                   /\ sleeps = SubSeq(<<Num(200), Num(400), Num(800), Num(1600)>>,
                                      1, Len(sleeps))
                   /\ pc = "done" => nCalls = 5 /\ Len(sleeps) = 4

C6_Witness ==
    /\ config = Config(Num(2), Num(3), Num(1), Num(3), "linear")
    /\ pc = "done" /\ AllFailed
    /\ nCalls = 5
    /\ sleeps = <<Num(200), Num(400), Num(800), Num(1600)>>

-----------------------------------------------------------------------------
(* Properties of the pure functions (SpecPure).                            *)

\* the right-hand side of the validity law: every field is a number in its
\* range and maxDelay >= initialDelay
ValidityLaw(c) ==
    /\ c.kind = "object"
    /\ c.maxAttempts.t = "num" /\ c.maxAttempts.v > 0
    /\ c.initialDelay.t = "num" /\ c.initialDelay.v >= 0
    /\ c.maxDelay.t = "num" /\ c.maxDelay.v >= 0
    /\ c.backoffMultiplier.t = "num" /\ c.backoffMultiplier.v > 0
    /\ c.maxDelay.v >= c.initialDelay.v

\* C7: validateConfig(config) returns true if and only if config is an
\* object whose maxAttempts is a number > 0, initialDelay a number >= 0,
\* maxDelay a number >= 0, backoffMultiplier a number > 0, and
\* maxDelay >= initialDelay.
C7_ValidityLaw ==
    ret.fn = "validateConfig" => (ret.bool <=> ValidityLaw(ret.before))

\* C8: for a RetryConfig with backoffType exponential and an index i >= 0,
\* calculateDelay(i, config) is min(initialDelay * backoffMultiplier^i,
\* maxDelay), and the config object is as it was before the call.
C8_ExponentialLaw ==
    (ret.fn = "calculateDelay" /\ IsRetryConfig(ret.before)
        /\ ret.before.backoffType = "exponential")
        => /\ ret.num = Num(ExponentialLaw(ret.i, ret.before))
           /\ arg = ret.before

C8_Witness ==
    /\ ret.fn = "calculateDelay" /\ ret.before = ScenarioB
    /\ ret.i = 4 /\ ret.num = Num(2000)

\* C9: for a RetryConfig with backoffType linear and an index i >= 0,
\* calculateDelay(i, config) is min(initialDelay + backoffMultiplier * i,
\* maxDelay), and the config object is as it was before the call.
C9_LinearLaw ==
    (ret.fn = "calculateDelay" /\ IsRetryConfig(ret.before)
        /\ ret.before.backoffType = "linear")
        => /\ ret.num = Num(LinearLaw(ret.i, ret.before))
           /\ arg = ret.before

C9_Witness ==
    /\ ret.fn = "calculateDelay" /\ ret.before = RETRY_CONFIG_console
    /\ ret.i = 3 /\ ret.num = Num(2000)

-----------------------------------------------------------------------------
(* SpecGate: waitForDOMReady against the document life cycle.  The         *)
(* document goes from "loading" to "interactive", dispatches               *)
(* DOMContentLoaded, and goes to "complete"; a content script may call     *)
(* waitForDOMReady at any point of it.                                     *)

Gates == 1..MaxGates

NotCalled == [state |-> "uncalled", calledAt |-> "none", via |-> "none",
              resolves |-> 0, registered |-> 0]

\* document.readyState === 'complete' || document.readyState === 'interactive'
IsReady_CompleteOnly(rs) == rs = "complete"

IsReady(rs) == rs = "complete" \/ rs = "interactive"

\* waitForDOMReady(): the promise executor runs synchronously.
CallWaitForDOMReady(g) ==
    /\ gate[g].state = "uncalled"
    /\ IF IsReady(readyState)
       THEN /\ gate' = [gate EXCEPT ![g] =
                           [state |-> "ready", calledAt |-> readyState,
                            via |-> "immediate", resolves |-> 1,
                            registered |-> 0]]
            /\ UNCHANGED listeners
       ELSE /\ gate' = [gate EXCEPT ![g] =
                           [state |-> "pending", calledAt |-> readyState,
                            via |-> "none", resolves |-> 0,
                            registered |-> 1]]
            /\ listeners' = [listeners EXCEPT ![g] = @ + 1]
    /\ UNCHANGED <<readyState, dclFired>>

\* The parser is done: readyState becomes "interactive".
DocumentParsed ==
    /\ readyState = "loading"
    /\ readyState' = "interactive"
    /\ UNCHANGED <<dclFired, listeners, gate>>

\* The document dispatches DOMContentLoaded: every registered listener runs
\* (it calls resolve()) and, registered with { once: true }, is removed.
DOMContentLoaded ==
    /\ readyState = "interactive"
    /\ ~dclFired
    /\ dclFired' = TRUE
    /\ gate' = [g \in Gates |->
                  IF listeners[g] > 0
                  THEN [gate[g] EXCEPT
                          !.state = "ready",
                          !.via = IF gate[g].state = "pending" THEN "event" ELSE @,
                          !.resolves = @ + listeners[g]]
                  ELSE gate[g]]
    /\ listeners' = [g \in Gates |-> 0]
    /\ UNCHANGED readyState

\* All resources are loaded: readyState becomes "complete".
DocumentLoaded ==
    /\ readyState = "interactive"
    /\ dclFired
    /\ readyState' = "complete"
    /\ UNCHANGED <<dclFired, listeners, gate>>

InitGate ==
    /\ readyState \in {"loading", "interactive", "complete"}
    /\ dclFired \in BOOLEAN
    /\ readyState = "loading" => ~dclFired
    /\ readyState = "complete" => dclFired
    /\ listeners = [g \in Gates |-> 0]
    /\ gate = [g \in Gates |-> NotCalled]
    /\ RetryIdle
    /\ PureIdle
    /\ PollIdle
    /\ PagesIdle
    /\ DomIdle
    /\ StoreIdle
    /\ WaitIdle
    /\ DebIdle

NextGate ==
    \/ \E g \in Gates : CallWaitForDOMReady(g) /\ UNCHANGED <<retryVars, pureVars, pollVars, pageVars, domVars, storeVars, waitVars, debVars>>
    \/ DocumentParsed /\ UNCHANGED <<retryVars, pureVars, pollVars, pageVars, domVars, storeVars, waitVars, debVars>>
    \/ DOMContentLoaded /\ UNCHANGED <<retryVars, pureVars, pollVars, pageVars, domVars, storeVars, waitVars, debVars>>
    \/ DocumentLoaded /\ UNCHANGED <<retryVars, pureVars, pollVars, pageVars, domVars, storeVars, waitVars, debVars>>

SpecGate == InitGate /\ [][NextGate]_vars

\* C10: a waitForDOMReady call made while readyState is "interactive" or
\* "complete" is resolved at once and registers no listener; a call made
\* while it is "loading" registers exactly one DOMContentLoaded listener, is
\* pending until the event is dispatched and resolved by it, after which the
\* listener is gone.  A gate is resolved at most once, only by one of these
\* two ways, and never while the document is still loading.
C10_ReadinessGate ==
    \A g \in Gates :
        /\ gate[g].calledAt \in {"interactive", "complete"}
              => /\ gate[g].state = "ready" /\ gate[g].via = "immediate"
                 /\ gate[g].resolves = 1
                 /\ gate[g].registered = 0 /\ listeners[g] = 0
        /\ gate[g].calledAt = "loading"
              => /\ gate[g].registered = 1
                 /\ IF dclFired
                    THEN /\ gate[g].state = "ready" /\ gate[g].via = "event"
                         /\ gate[g].resolves = 1 /\ listeners[g] = 0
                    ELSE /\ gate[g].state = "pending" /\ gate[g].via = "none"
                         /\ gate[g].resolves = 0 /\ listeners[g] = 1
        /\ gate[g].state = "uncalled"
              => gate[g].resolves = 0 /\ listeners[g] = 0
        /\ gate[g].resolves <= 1
        /\ gate[g].state = "ready" => readyState # "loading"

C10_Witness ==
    /\ gate[1].calledAt = "loading" /\ gate[1].state = "ready"
    /\ gate[1].via = "event" /\ gate[1].resolves = 1
    /\ gate[2].calledAt = "interactive" /\ gate[2].via = "immediate"
    /\ gate[3].calledAt = "complete" /\ gate[3].via = "immediate"

-----------------------------------------------------------------------------
(* SpecPoll: waitForElement(selector, timeout).                            *)

\* RETRY_CONFIG.elementPolling.pollInterval
PollInterval == 100
\* RETRY_CONFIG.elementPolling.timeout
PollTimeout == 3000

\* What document.querySelector(selector) can do on one poll.
QueryOutcomes == {"element", "null", "throw"}

\* The timeout arguments: none (the default applies) or a number of ms.
PollTimeoutArgs == {Undefined} \cup {Num(50 * k) : k \in (-1)..MaxTimeoutSteps}

\* timeout = RETRY_CONFIG.elementPolling.timeout  (default parameter)
DefaultedTimeout(t) == IF t = Undefined THEN Num(PollTimeout) ELSE t

\* One run of check(): the query gave `out`, `elapsed` is Date.now() -
\* startTime.  The query is not guarded: when it raises, check() raises.
OnCheck_KeepsPolling(out, elapsed, timeout) ==
    IF out = "throw"
    THEN [next |-> "raise", value |-> "Error", delay |-> 0]
    ELSE IF JsLe(timeout, Num(elapsed)) /\ out # "element"
    THEN [next |-> "resolve", value |-> "null", delay |-> 0]
    ELSE [next |-> "schedule", value |-> out, delay |-> PollInterval]

OnCheck_StrictTimeout(out, elapsed, timeout) ==
    IF out = "throw"
    THEN [next |-> "raise", value |-> "Error", delay |-> 0]
    ELSE IF out = "element"
    THEN [next |-> "resolve", value |-> "element", delay |-> 0]
    ELSE IF JsLt(timeout, Num(elapsed))
    THEN [next |-> "resolve", value |-> "null", delay |-> 0]
    ELSE [next |-> "schedule", value |-> "null", delay |-> PollInterval]

OnCheck(out, elapsed, timeout) ==
    IF out = "throw"
    THEN [next |-> "raise", value |-> "Error", delay |-> 0]
    ELSE IF out = "element"
    THEN [next |-> "resolve", value |-> "element", delay |-> 0]
    ELSE IF JsLe(timeout, Num(elapsed))
    THEN [next |-> "resolve", value |-> "null", delay |-> 0]
    ELSE [next |-> "schedule", value |-> "null", delay |-> PollInterval]

\* check() runs at time t with query outcome out.  first: the call is the
\* one made by the promise executor, where a raise rejects the promise; a
\* raise in a timer callback is an uncaught error that leaves the promise
\* pending and schedules nothing.
Check(out, t, start, first) ==
    LET h == OnCheck(out, t - start, poller.timeout)
        p == [poller EXCEPT !.now = t, !.start = start,
                            !.polls = Append(@, [at |-> t, out |-> out])]
    IN  CASE h.next = "resolve" ->
               poller' = [p EXCEPT !.pc = "done", !.settled = "resolved",
                                   !.value = h.value]
          [] h.next = "schedule" ->
               poller' = [p EXCEPT !.pc = "waiting",
                                   !.timers = Append(@, h.delay),
                                   !.wake = t + h.delay]
          [] h.next = "raise" /\ first ->
               poller' = [p EXCEPT !.pc = "done", !.settled = "rejected",
                                   !.value = h.value]
          [] h.next = "raise" /\ ~first ->
               poller' = [p EXCEPT !.pc = "crashed", !.uncaught = TRUE]

\* The caller invokes waitForElement: the executor records startTime and
\* runs check() once.
CallWaitForElement(out) ==
    /\ poller.pc = "start"
    /\ Check(out, poller.now, poller.now, TRUE)

\* The pending setTimeout(check, pollInterval) fires, on time or up to
\* MaxLate ms late.
PollTimerFires(out, late) ==
    /\ poller.pc = "waiting"
    /\ (poller.wake + late) - poller.start
           <= PollInterval * Len(poller.polls) + MaxDrift
    /\ Check(out, poller.wake + late, poller.start, FALSE)

InitPoll ==
    /\ \E a \in PollTimeoutArgs :
          poller = [pc |-> "start", arg |-> a, timeout |-> DefaultedTimeout(a),
                    start |-> 0, now |-> 0, wake |-> 0,
                    polls |-> <<>>, timers |-> <<>>,
                    settled |-> "pending", value |-> "undefined",
                    uncaught |-> FALSE]
    /\ RetryIdle
    /\ PureIdle
    /\ GateIdle
    /\ PagesIdle
    /\ DomIdle
    /\ StoreIdle
    /\ WaitIdle
    /\ DebIdle

NextPoll ==
    \/ \E out \in QueryOutcomes :
          CallWaitForElement(out)
              /\ UNCHANGED <<retryVars, pureVars, gateVars, pageVars, domVars, storeVars, waitVars, debVars>>
    \/ \E out \in QueryOutcomes, late \in 0..MaxLate :
          PollTimerFires(out, late)
              /\ UNCHANGED <<retryVars, pureVars, gateVars, pageVars, domVars, storeVars, waitVars, debVars>>

SpecPoll == InitPoll /\ [][NextPoll]_vars

(* SpecAttempts: one invocation of either kind, a retryWithBackoff of Spec  *)
(* or a waitForElement of SpecPoll.                                        *)

InitAttempts == Init \/ InitPoll

NextAttempts == Next \/ NextPoll

SpecAttempts == InitAttempts /\ [][NextAttempts]_vars

\* the probe calls of the invocation that have not settled yet
InFlight == nCalls - Len(calls)

\* C32: attempts are strictly sequential.  In retryWithBackoff a step
\* starts at most one probe call, and only when every earlier call has
\* settled; a call after the first starts from the delay that followed the
\* call before it, one delay per call, and not before that timer is due;
\* so at most one call is in flight, and only while the function awaits
\* it.  In waitForElement a step makes one poll; a poll after the first is
\* made by the one pending timer, set pollInterval after the poll before
\* it, and not before it is due.
C32_AttemptsAreSequential ==
    /\ [][/\ nCalls' # nCalls =>
               /\ nCalls' = nCalls + 1
               /\ Len(calls') = nCalls
               /\ nCalls > 0 =>
                     /\ pc = "sleeping"
                     /\ Len(sleeps) = nCalls
                     /\ now' >= wake
          /\ (poller.pc # "idle" /\ Len(poller'.polls) # Len(poller.polls)) =>
               /\ Len(poller'.polls) = Len(poller.polls) + 1
               /\ Len(poller.polls) > 0 =>
                     /\ poller.pc = "waiting"
                     /\ Len(poller.timers) = Len(poller.polls)
                     /\ poller.wake
                           = poller.polls[Len(poller.polls)].at + PollInterval
                     /\ poller'.now >= poller.wake]_vars
    /\ [](/\ InFlight = IF pc = "awaiting" THEN 1 ELSE 0
          /\ poller.pc # "idle" =>
                /\ Len(poller.timers) <= Len(poller.polls)
                /\ poller.pc = "waiting"
                      => Len(poller.timers) = Len(poller.polls))

\* The third probe call is in flight: two calls have settled without
\* success, each followed by its delay, and the second delay is over.
C32_Witness ==
    /\ pc = "awaiting" /\ nCalls = 3 /\ Len(calls) = 2
    /\ Len(sleeps) = 2 /\ TimeoutMs(sleeps[2]) > 0
    /\ now >= wake

\* the query has found nothing so far, without raising
NeverAppeared == \A i \in 1..Len(poller.polls) : poller.polls[i].out = "null"
\* every timer so far fired exactly when due
OnSchedule ==
    \A i \in 1..Len(poller.polls) :
        poller.polls[i].at = poller.start + (i - 1) * PollInterval
ElapsedAt(i) == poller.polls[i].at - poller.start

\* C11: the poll at which the query finds the element is the last one: the
\* promise is resolved with the element and no timer is pending or can
\* fire; and every timer the poller sets has the fixed interval of 100 ms,
\* one after each poll that went on, so that consecutive polls are at least
\* 100 ms apart however many polls have failed.
C11_FoundStopsPolling ==
    /\ \A i \in 1..Len(poller.polls) :
          poller.polls[i].out = "element"
              => /\ i = Len(poller.polls)
                 /\ poller.pc = "done" /\ poller.settled = "resolved"
                 /\ poller.value = "element"
                 /\ Len(poller.timers) = i - 1
                 /\ ~ENABLED NextPoll
    /\ \A i \in 1..Len(poller.timers) : poller.timers[i] = 100
    /\ \A i \in 1..(Len(poller.polls) - 1) :
          /\ poller.polls[i + 1].at - poller.polls[i].at >= 100
          /\ poller.polls[i + 1].at - poller.polls[i].at <= 100 + MaxLate
    /\ poller.pc = "waiting" => Len(poller.timers) = Len(poller.polls)

C11_Witness ==
    /\ Len(poller.polls) = 4
    /\ poller.polls[4].out = "element"
    /\ poller.settled = "resolved" /\ poller.value = "element"
    /\ poller.polls[4].at > 300

\* C12: when the query never finds the element (and never raises), the
\* promise resolves null at the first poll whose elapsed time is >= timeout,
\* never earlier; when every timer fired when due, the polls are at 0, 100,
\* 200, ... and that poll is less than 100 ms after the timeout; until then
\* a timer is pending, so the invocation goes on, and it makes at most
\* timeout / 100 + 2 polls.
C12_TimeoutResolvesNull ==
    (NeverAppeared /\ poller.pc # "start")
        => /\ poller.pc \in {"waiting", "done"}
           /\ poller.pc = "waiting"
                 => /\ poller.settled = "pending" /\ ENABLED NextPoll
                    /\ \A i \in 1..Len(poller.polls) :
                          ElapsedAt(i) < poller.timeout.v
           /\ poller.pc = "done"
                 => /\ poller.settled = "resolved" /\ poller.value = "null"
                    /\ ElapsedAt(Len(poller.polls)) >= poller.timeout.v
                    /\ \A i \in 1..(Len(poller.polls) - 1) :
                          ElapsedAt(i) < poller.timeout.v
                    /\ (OnSchedule /\ poller.timeout.v >= 0)
                          => ElapsedAt(Len(poller.polls))
                                 < poller.timeout.v + 100
           /\ 100 * (Len(poller.polls) - 2) < poller.timeout.v
                 \/ Len(poller.polls) = 1

C12_Witness ==
    /\ NeverAppeared /\ OnSchedule
    /\ poller.arg = Num(250)
    /\ poller.pc = "done" /\ poller.value = "null"
    /\ Len(poller.polls) = 4

\* C13: no exception escapes waitForElement: the promise is never rejected
\* and no call of check() ends in an uncaught error; after a poll whose
\* query raised the poller has either resolved or set its next timer.
C13_QueryErrorsAreCaught ==
    /\ poller.settled # "rejected"
    /\ ~poller.uncaught
    /\ poller.pc \in {"start", "waiting", "done"}

-----------------------------------------------------------------------------
(* SpecPages: the two content scripts.  A behaviour is one page, either a  *)
(* console page running console-content.js with the retry utilities loaded *)
(* or a portal page running portal-content.js.                             *)
(*                                                                         *)
(* Console page: `runs` holds one record per invocation of init().  Code   *)
(* between two awaits is one step; `await fn()` on the synchronous probe   *)
(* resumes in a microtask, so the probe and the executor's reaction to it  *)
(* are a single step.  Timers fire at any later moment.                    *)

\* What getCurrentAccountId() / getCurrentAccountName() can do.
ReaderOutcomes == {"value", "null", "throw"}
\* What chrome.runtime.sendMessage can do: respond {success: true, ...},
\* respond {success: false}, respond undefined, or reject.
TransportOutcomes == {"success", "failure", "undefined", "rejected"}

\* The config waitForAccountElement hands to retryWithBackoff, as the
\* executor uses it.
ConsoleConfig == EffectiveConfig(RETRY_CONFIG_console)

\* () => querySelector(accountMenu) || querySelector(accountMenuAlt) || null
ProbeResult(menu) == IF menu THEN "{data:x}" ELSE "null"

\* if (!accountElement) { console.warn(...); return; }
ElementMissing_Never(v) == FALSE

ElementMissing(v) == ~Truthy(v)

\* Senders: what each returns for a transport outcome, and whether the
\* rejection escapes the sender.
requestAccountName_Uncaught(resp) ==
    IF resp = "rejected" THEN [value |-> "Error", escaped |-> TRUE]
    ELSE IF resp = "success" THEN [value |-> "accountName", escaped |-> FALSE]
    ELSE [value |-> "null", escaped |-> FALSE]

requestAccountName(resp) ==
    IF resp = "rejected" THEN [value |-> "null", escaped |-> FALSE]
    ELSE IF resp = "success" THEN [value |-> "accountName", escaped |-> FALSE]
    ELSE [value |-> "null", escaped |-> FALSE]

requestAccountIdByName(resp) ==
    IF resp = "rejected" THEN [value |-> "null", escaped |-> FALSE]
    ELSE IF resp = "success" THEN [value |-> "accountId", escaped |-> FALSE]
    ELSE [value |-> "null", escaped |-> FALSE]

sendAccountsToBackground(resp) ==
    IF resp = "rejected" THEN [value |-> "{success:false,error}", escaped |-> FALSE]
    ELSE IF resp = "success" THEN [value |-> "{success:true}", escaped |-> FALSE]
    ELSE IF resp = "failure" THEN [value |-> "{success:false}", escaped |-> FALSE]
    ELSE [value |-> "{success:false}", escaped |-> FALSE]

\* One call of a page reader by updateDisplay and what it gave.
Read(fn, out) == [fn |-> fn, out |-> out]

UpdateDisplayHead_NameFirst(idOut, nameOut) ==
    LET name == <<Read("getCurrentAccountName", nameOut)>>
        both == name \o <<Read("getCurrentAccountId", idOut)>>
    IN  IF nameOut = "throw"
        THEN [next |-> "throw", request |-> "none", reads |-> name]
        ELSE IF nameOut = "value"
        THEN [next |-> "await", request |-> "GET_ACCOUNT_BY_NAME", reads |-> name]
        ELSE IF idOut = "throw"
        THEN [next |-> "throw", request |-> "none", reads |-> both]
        ELSE IF idOut = "value"
        THEN [next |-> "await", request |-> "GET_ACCOUNT_NAME", reads |-> both]
        ELSE [next |-> "return", request |-> "none", reads |-> both]

\* updateDisplay up to its await: the readers are called unguarded,
\* getCurrentAccountId first and getCurrentAccountName only when the id is
\* falsy.
UpdateDisplayHead(idOut, nameOut) ==
    LET id == <<Read("getCurrentAccountId", idOut)>>
        both == id \o <<Read("getCurrentAccountName", nameOut)>>
    IN  IF idOut = "throw"
        THEN [next |-> "throw", request |-> "none", reads |-> id]
        ELSE IF idOut = "value"
        THEN [next |-> "await", request |-> "GET_ACCOUNT_NAME", reads |-> id]
        ELSE IF nameOut = "throw"
        THEN [next |-> "throw", request |-> "none", reads |-> both]
        ELSE IF nameOut = "value"
        THEN [next |-> "await", request |-> "GET_ACCOUNT_BY_NAME", reads |-> both]
        ELSE [next |-> "return", request |-> "none", reads |-> both]

\* updateDisplay after its await: the name handed to
\* injectAccountNameDisplay.
DisplayName(request, v) ==
    IF request = "GET_ACCOUNT_NAME"
    THEN (IF v = "null" THEN "Unknown Account" ELSE v)
    ELSE "pageAccountName"

\* A fresh invocation of init(), started by `trigger`; overtook records the
\* earlier invocations that were suspended in a delay at that moment.
NewRun(trigger) ==
    [pc |-> "gate", trigger |-> trigger,
     overtook |-> {r \in 1..Len(runs) : runs[r].pc = "sleeping"},
     gates |-> 0, invocations |-> 0,
     attempt |-> 0, nCalls |-> 0, sleeps |-> <<>>, lastResult |-> "null",
     value |-> "undefined", warned |-> FALSE, requests |-> <<>>,
     response |-> "none", displayed |-> "none", escaped |-> FALSE,
     watching |-> FALSE, reads |-> <<>>]

\* The executor's for loop of run r at index a with lastResult last: the
\* probe is called and its result handled.
RunAttempt(r, a, last) ==
    LET c == ConsoleConfig
        h == OnResult(ProbeResult(page.menu), a, c, last)
        q == [runs[r] EXCEPT !.attempt = a, !.nCalls = @ + 1,
                             !.lastResult = h.lastResult]
    IN  IF ~LoopContinues(a, c)
        THEN [runs[r] EXCEPT !.attempt = a, !.pc = "returned",
                             !.value = ExhaustedValue(last)]
        ELSE CASE h.next = "return" ->
                    [q EXCEPT !.pc = "returned", !.value = h.value]
               [] h.next = "sleep" ->
                    [q EXCEPT !.pc = "sleeping",
                              !.sleeps = Append(@, TimeoutMs(h.delay))]
               [] h.next = "continue" ->
                    \* attempt + 1 fails the loop test: return lastResult
                    [q EXCEPT !.attempt = a + 1, !.pc = "returned",
                              !.value = ExhaustedValue(h.lastResult)]

\* Replaces run r by q.
SetRun(r, q) == runs' = [runs EXCEPT ![r] = q]

StartRuns_Cancelling(n, trigger) ==
    runs' = [r \in 1..Len(runs) |->
                IF runs[r].pc = "sleeping"
                THEN [runs[r] EXCEPT !.pc = "done", !.value = "undefined"]
                ELSE runs[r]]
            \o [i \in 1..n |-> NewRun(trigger)]

\* n listeners call init(): n fresh runs.  init() creates its own frames
\* and timers and touches none of another invocation.
StartRuns(n, trigger) == runs' = runs \o [i \in 1..n |-> NewRun(trigger)]

\* setupNavigationObserver(): one more MutationObserver with its own
\* lastUrl, and one more popstate listener.
setupNavigationObserver == page' = [page EXCEPT !.watchers = Append(@, page.href)]

\* Top level of console-content.js: init now, or on DOMContentLoaded.
ConsoleScriptRuns ==
    /\ page.kind = "console" /\ page.script = "start"
    /\ IF page.readyState = "loading"
       THEN /\ page' = [page EXCEPT !.script = "listening"]
            /\ UNCHANGED runs
       ELSE /\ page' = [page EXCEPT !.script = "running"]
            /\ StartRuns(1, "load")
    /\ UNCHANGED portal

\* The document has been parsed: readyState becomes 'interactive' and the
\* DOMContentLoaded listener, if set, calls init.
ConsoleDOMContentLoaded ==
    /\ page.kind = "console" /\ page.readyState = "loading"
    /\ IF page.script = "listening"
       THEN /\ page' = [page EXCEPT !.readyState = "interactive",
                                    !.script = "running"]
            /\ StartRuns(1, "load")
       ELSE /\ page' = [page EXCEPT !.readyState = "interactive"]
            /\ UNCHANGED runs
    /\ UNCHANGED portal

\* await waitFn() resumes: waitForAccountElement invokes retryWithBackoff,
\* whose loop starts at attempt 0 with lastResult null.
GatePasses(r) ==
    /\ page.kind = "console" /\ r \in 1..Len(runs)
    /\ runs[r].pc = "gate"
    /\ IsReady(page.readyState)
    /\ SetRun(r, [RunAttempt(r, 0, "null") EXCEPT !.gates = @ + 1,
                                                  !.invocations = @ + 1])
    /\ UNCHANGED <<page, portal>>

\* The executor's delay of run r is over: next loop iteration.
RunTimerFires(r) ==
    /\ page.kind = "console" /\ r \in 1..Len(runs)
    /\ runs[r].pc = "sleeping"
    /\ SetRun(r, RunAttempt(r, runs[r].attempt + 1, runs[r].lastResult))
    /\ UNCHANGED <<page, portal>>

\* Run r past waitForAccountElement: the executor's frame (attempt,
\* lastResult) is gone, and with it the record of its calls and delays.
Returned(r) ==
    [runs[r] EXCEPT !.attempt = 0, !.nCalls = 0, !.sleeps = <<>>,
                    !.lastResult = "null"]

\* init() resumes with the result of waitForAccountElement: it gives up
\* with a warning, or runs updateDisplay up to its await, or through to
\* setupNavigationObserver when the readers find nothing.
AccountElementAwaited(r, idOut, nameOut) ==
    /\ page.kind = "console" /\ r \in 1..Len(runs)
    /\ runs[r].pc = "returned"
    /\ LET h == UpdateDisplayHead(idOut, nameOut)
       IN  IF ElementMissing(runs[r].value)
           THEN /\ SetRun(r, [runs[r] EXCEPT !.pc = "done", !.warned = TRUE])
                /\ UNCHANGED page
           ELSE CASE h.next = "throw" ->
                       /\ SetRun(r, [Returned(r) EXCEPT !.pc = "rejected",
                                                        !.reads = h.reads,
                                                        !.escaped = TRUE])
                       /\ UNCHANGED page
                  [] h.next = "await" ->
                       /\ SetRun(r, [Returned(r) EXCEPT
                                        !.pc = "requesting",
                                        !.reads = h.reads,
                                        !.requests = Append(@, h.request)])
                       /\ UNCHANGED page
                  [] h.next = "return" ->
                       /\ SetRun(r, [Returned(r) EXCEPT !.pc = "done",
                                                        !.reads = h.reads,
                                                        !.watching = TRUE])
                       /\ setupNavigationObserver
    /\ UNCHANGED portal

\* chrome.runtime.sendMessage of run r settles: the sender returns,
\* updateDisplay injects the name, init registers the navigation watcher.
ConsoleTransportSettles(r, resp) ==
    /\ page.kind = "console" /\ r \in 1..Len(runs)
    /\ runs[r].pc = "requesting"
    /\ LET req == runs[r].requests[Len(runs[r].requests)]
           s == IF req = "GET_ACCOUNT_NAME" THEN requestAccountName(resp)
                ELSE requestAccountIdByName(resp)
       IN  IF s.escaped
           THEN /\ SetRun(r, [runs[r] EXCEPT !.pc = "rejected",
                                             !.response = resp,
                                             !.escaped = TRUE])
                /\ UNCHANGED page
           ELSE /\ SetRun(r, [runs[r] EXCEPT
                                 !.pc = "done", !.response = resp,
                                 !.displayed = DisplayName(req, s.value),
                                 !.watching = TRUE])
                /\ setupNavigationObserver
    /\ UNCHANGED portal

\* The console renders the account menu.
MenuAppears ==
    /\ page.kind = "console" /\ ~page.menu
    /\ page' = [page EXCEPT !.menu = TRUE]
    /\ UNCHANGED <<runs, portal>>

\* The single-page application moves to another URL (history.pushState);
\* the new view may lack the account menu for a while.
LocationChangesWithin(menuStays, maxNav) ==
    /\ page.kind = "console" /\ page.script = "running"
    /\ page.href < maxNav
    /\ page' = [page EXCEPT !.href = @ + 1, !.menu = @ /\ menuStays]
    /\ UNCHANGED <<runs, portal>>

LocationChanges(menuStays) == LocationChangesWithin(menuStays, MaxNav)

\* The registered MutationObservers with a stale lastUrl
Stale == {w \in 1..Len(page.watchers) : page.watchers[w] # page.href}

\* The first DOM mutation after a location change is delivered: every
\* registered observer whose lastUrl differs from location.href records the
\* URL and calls init.
DomMutationWithin(maxRuns) ==
    /\ page.kind = "console" /\ page.script = "running"
    /\ page.seen # page.href
    /\ Len(runs) + Cardinality(Stale) <= maxRuns
    /\ page' = [page EXCEPT
                   !.seen = page.href,
                   !.watchers = [w \in 1..Len(page.watchers) |-> page.href],
                   !.events = Append(@, [how |-> "mutation",
                                         started |-> Cardinality(Stale)])]
    /\ StartRuns(Cardinality(Stale), "mutation")
    /\ UNCHANGED portal

DomMutation == DomMutationWithin(MaxRuns)

\* Back/forward navigation: the location changes, the restored view may
\* lack the account menu for a while, and a popstate event is dispatched;
\* every registered popstate listener calls init.
PopstateWithin(menuStays, maxNav, maxRuns) ==
    /\ page.kind = "console" /\ page.script = "running"
    /\ page.href < maxNav
    /\ Len(runs) + Len(page.watchers) <= maxRuns
    /\ page' = [page EXCEPT
                   !.href = @ + 1, !.menu = @ /\ menuStays,
                   !.events = Append(@, [how |-> "popstate",
                                         started |-> Len(page.watchers)])]
    /\ StartRuns(Len(page.watchers), "popstate")
    /\ UNCHANGED portal

Popstate(menuStays) == PopstateWithin(menuStays, MaxNav, MaxRuns)

(* Portal page: portal-content.js.                                         *)

\* the debounce of observePortalChanges, in ms
DebounceMs == 500

\* What extractAccountsFromPortal() can do: return accounts, return an
\* empty list, or raise (a DOM call fails).  Which of them depends on the
\* page only: portal.content holds what an extraction of the page as it is
\* now does.
ExtractOutcomes == {"accounts", "empty", "throw"}

\* if (document.readyState === 'loading'): init waits for DOMContentLoaded
PortalDefers_Never(rs) == FALSE

PortalDefers(rs) == rs = "loading"

\* One call of extractAccountsFromPortal by `by` with outcome out, and the
\* unawaited sendAccountsToBackground when accounts were found.
Extract_SendsWhatever(by, out) ==
    [portal EXCEPT
        !.extractions = Append(@, [by |-> by, out |-> out,
                                   readyState |-> page'.readyState]),
        !.requests = IF out # "throw" THEN Append(@, "STORE_ACCOUNTS") ELSE @,
        !.pending = IF out # "throw" THEN @ + 1 ELSE @]

Extract(by, out) ==
    [portal EXCEPT
        !.extractions = Append(@, [by |-> by, out |-> out,
                                   readyState |-> page'.readyState]),
        !.requests = IF out = "accounts" THEN Append(@, "STORE_ACCOUNTS") ELSE @,
        !.pending = IF out = "accounts" THEN @ + 1 ELSE @]

\* init(): one extraction of the page as it is, then observePortalChanges.
\* Nothing guards the extractor: when it raises, init is left before the
\* observer is set.
PortalInit_ObservesWhenFound(out) ==
    IF out = "throw"
    THEN portal' = [Extract("init", out) EXCEPT !.pc = "crashed",
                                                !.content = out,
                                                !.escaped = TRUE]
    ELSE portal' = [Extract("init", out) EXCEPT
                       !.pc = "observing",
                       !.content = out,
                       !.observing = out = "accounts",
                       !.observers = IF out = "accounts" THEN @ + 1 ELSE @]

PortalInit(out) ==
    IF out = "throw"
    THEN portal' = [Extract("init", out) EXCEPT !.pc = "crashed",
                                                !.content = out,
                                                !.escaped = TRUE]
    ELSE portal' = [Extract("init", out) EXCEPT !.pc = "observing",
                                                !.content = out,
                                                !.observing = TRUE,
                                                !.observers = @ + 1]

\* Top level of portal-content.js.
PortalScriptRuns(out) ==
    /\ page.kind = "portal" /\ portal.pc = "start"
    /\ UNCHANGED <<page, runs>>
    /\ IF PortalDefers(page.readyState)
       THEN portal' = [portal EXCEPT !.pc = "listening"]
       ELSE PortalInit(out)

\* The document has been parsed; the DOMContentLoaded listener, if set,
\* calls init.
PortalDOMContentLoaded(out) ==
    /\ page.kind = "portal" /\ page.readyState = "loading"
    /\ page' = [page EXCEPT !.readyState = "interactive"]
    /\ UNCHANGED runs
    /\ IF portal.pc = "listening" THEN PortalInit(out) ELSE UNCHANGED portal

\* The page changes, so that an extraction now does `becomes`, and the
\* observer is told: it clears its debounce timer and sets a new one.
PortalMutation(becomes) ==
    /\ page.kind = "portal" /\ portal.observing
    /\ portal.mutations < MaxMutations
    /\ portal' = [portal EXCEPT !.mutations = @ + 1, !.debounce = TRUE,
                                !.content = becomes,
                                !.timers = Append(@, DebounceMs)]
    /\ UNCHANGED <<page, runs>>

\* The debounce timer fires: the callback extracts again, from the page as
\* the last mutation left it.  A raise in the callback is an uncaught error
\* of the timer task.
PortalDebounceFires ==
    /\ page.kind = "portal" /\ portal.debounce
    /\ UNCHANGED <<page, runs>>
    /\ portal' = [Extract("observer", portal.content) EXCEPT
                     !.debounce = FALSE,
                     !.escaped = @ \/ portal.content = "throw"]

\* A pending STORE_ACCOUNTS call settles; nobody awaits the sender's value.
PortalTransportSettles(resp) ==
    /\ page.kind = "portal" /\ portal.pending > 0
    /\ portal' = [portal EXCEPT
                     !.pending = @ - 1,
                     !.responses = Append(@, resp),
                     !.results = Append(@, sendAccountsToBackground(resp).value),
                     !.sendEscaped = @ \/ sendAccountsToBackground(resp).escaped]
    /\ UNCHANGED <<page, runs>>

InitPages ==
    /\ \E k \in {"console", "portal"},
          rs \in {"loading", "interactive", "complete"}, m \in BOOLEAN :
          /\ k = "portal" => ~m
          /\ page = [kind |-> k, readyState |-> rs, script |-> "start",
                     href |-> 0, menu |-> m, watchers |-> <<>>, seen |-> 0,
                     events |-> <<>>]
          /\ portal = [pc |-> IF k = "portal" THEN "start" ELSE "idle",
                       extractions |-> <<>>, requests |-> <<>>, pending |-> 0,
                       responses |-> <<>>, results |-> <<>>, timers |-> <<>>,
                       debounce |-> FALSE, observing |-> FALSE,
                       observers |-> 0, content |-> "empty",
                       escaped |-> FALSE, sendEscaped |-> FALSE,
                       mutations |-> 0]
    /\ runs = <<>>
    /\ RetryIdle
    /\ PureIdle
    /\ GateIdle
    /\ PollIdle
    /\ DomIdle
    /\ StoreIdle
    /\ WaitIdle
    /\ DebIdle

OtherVars == <<retryVars, pureVars, gateVars, pollVars, domVars, storeVars,
               waitVars, debVars>>

NextPages ==
    \/ ConsoleScriptRuns /\ UNCHANGED OtherVars
    \/ ConsoleDOMContentLoaded /\ UNCHANGED OtherVars
    \/ \E r \in 1..MaxRuns : GatePasses(r) /\ UNCHANGED OtherVars
    \/ \E r \in 1..MaxRuns : RunTimerFires(r) /\ UNCHANGED OtherVars
    \/ \E r \in 1..MaxRuns, idOut \in ReaderOutcomes, nameOut \in ReaderOutcomes :
          AccountElementAwaited(r, idOut, nameOut) /\ UNCHANGED OtherVars
    \/ \E r \in 1..MaxRuns, resp \in TransportOutcomes :
          ConsoleTransportSettles(r, resp) /\ UNCHANGED OtherVars
    \/ MenuAppears /\ UNCHANGED OtherVars
    \/ \E menuStays \in BOOLEAN : LocationChanges(menuStays) /\ UNCHANGED OtherVars
    \/ DomMutation /\ UNCHANGED OtherVars
    \/ \E menuStays \in BOOLEAN : Popstate(menuStays) /\ UNCHANGED OtherVars
    \/ \E out \in ExtractOutcomes : PortalScriptRuns(out) /\ UNCHANGED OtherVars
    \/ \E out \in ExtractOutcomes :
          PortalDOMContentLoaded(out) /\ UNCHANGED OtherVars
    \/ \E becomes \in ExtractOutcomes :
          PortalMutation(becomes) /\ UNCHANGED OtherVars
    \/ PortalDebounceFires /\ UNCHANGED OtherVars
    \/ \E resp \in TransportOutcomes :
          PortalTransportSettles(resp) /\ UNCHANGED OtherVars

SpecPages == InitPages /\ [][NextPages]_vars

(* SpecPortal: the portal page alone.  A debounce timer that is pending    *)
(* fires in the end: the event loop runs every timer task that stays set.  *)
InitPortal == InitPages /\ page.kind = "portal"

NextPortal ==
    \/ \E out \in ExtractOutcomes : PortalScriptRuns(out) /\ UNCHANGED OtherVars
    \/ \E out \in ExtractOutcomes :
          PortalDOMContentLoaded(out) /\ UNCHANGED OtherVars
    \/ \E becomes \in ExtractOutcomes :
          PortalMutation(becomes) /\ UNCHANGED OtherVars
    \/ PortalDebounceFires /\ UNCHANGED OtherVars
    \/ \E resp \in TransportOutcomes :
          PortalTransportSettles(resp) /\ UNCHANGED OtherVars

SpecPortal ==
    /\ InitPortal
    /\ [][NextPortal]_vars
    /\ WF_vars(PortalDebounceFires /\ UNCHANGED OtherVars)

(* SpecRestart: the console page alone, with room for an invocation that  *)
(* is started while an earlier one is still retrying.  The readers find   *)
(* the account id and the background answers, so that what varies is the  *)
(* timing of the menu, the navigations and the timers.                    *)

\* the invocations of init() and the location changes of one behaviour
MaxInvocations == 3
MaxLocations == 1

InitRestart == InitPages /\ page.kind = "console"

NextRestart ==
    \/ ConsoleScriptRuns /\ UNCHANGED OtherVars
    \/ ConsoleDOMContentLoaded /\ UNCHANGED OtherVars
    \/ \E r \in 1..MaxInvocations : GatePasses(r) /\ UNCHANGED OtherVars
    \/ \E r \in 1..MaxInvocations : RunTimerFires(r) /\ UNCHANGED OtherVars
    \/ \E r \in 1..MaxInvocations :
          AccountElementAwaited(r, "value", "null") /\ UNCHANGED OtherVars
    \/ \E r \in 1..MaxInvocations :
          ConsoleTransportSettles(r, "success") /\ UNCHANGED OtherVars
    \/ MenuAppears /\ UNCHANGED OtherVars
    \/ \E menuStays \in BOOLEAN :
          LocationChangesWithin(menuStays, MaxLocations) /\ UNCHANGED OtherVars
    \/ DomMutationWithin(MaxInvocations) /\ UNCHANGED OtherVars
    \/ \E menuStays \in BOOLEAN :
          PopstateWithin(menuStays, MaxLocations, MaxInvocations)
             /\ UNCHANGED OtherVars

SpecRestart == InitRestart /\ [][NextRestart]_vars

\* the runs of init() so far
Runs == 1..Len(runs)
\* run r ended because the executor ran out of attempts
GaveUp(r) == runs[r].pc = "done" /\ runs[r].value = "null"

\* C14: every location change the script is told of (a DOM mutation with
\* a changed URL, a popstate event) restarts the pipeline: at least one
\* fresh init() is started, whatever the outcome of the run before; and a
\* started run makes one readiness wait and one retryWithBackoff invocation
\* of its own.
C14_LocationChangeRestarts ==
    /\ \A i \in 1..Len(page.events) : page.events[i].started >= 1
    /\ \A r \in Runs :
          /\ runs[r].pc = "gate" => runs[r].gates = 0 /\ runs[r].nCalls = 0
          /\ runs[r].pc # "gate"
                => runs[r].gates = 1 /\ runs[r].invocations = 1

\* C15: when the extraction at load finds no accounts, the portal script
\* has a retry pending: a timer of at least 200 ms is set (before any DOM
\* mutation is observed), and init extracts at most 5 times.
C15_PortalRetriesWithBackoff ==
    page.kind = "portal" =>
        /\ (/\ portal.pc = "observing"
            /\ portal.extractions[1].out = "empty"
            /\ portal.mutations = 0)
               => /\ Len(portal.timers) >= 1
                  /\ portal.timers[1] >= 200
        /\ Cardinality({i \in 1..Len(portal.extractions) :
                           portal.extractions[i].by = "init"}) <= 5

C17_ConsoleDelays ==
    \A r \in Runs :
        GaveUp(r)
            => /\ runs[r].nCalls <= 5
               /\ runs[r].sleeps = <<500, 1000, 1500, 2000, 2500>>

\* C18: a run whose executor returned null after its 5 attempts ends with
\* the warning and nothing else: init returns normally, nothing is
\* injected, no request is sent, no exception escapes.
C18_ExhaustionIsNotFatal ==
    \A r \in Runs :
        (runs[r].value = "null" /\ runs[r].pc # "returned")
            => /\ runs[r].pc = "done" /\ runs[r].warned
               /\ ~runs[r].escaped
               /\ runs[r].displayed = "none"
               /\ runs[r].requests = <<>>
               /\ runs[r].nCalls = 5

C18_Witness ==
    \E r \in Runs :
        /\ GaveUp(r) /\ runs[r].warned
        /\ runs[r].nCalls = 5 /\ Len(runs[r].sleeps) = 4

\* C19: no exception escapes init or the mutation callback of the portal
\* script, or init of the console script.
C19_NoExceptionEscapes ==
    /\ \A r \in Runs : ~runs[r].escaped /\ runs[r].pc # "rejected"
    /\ page.kind = "portal" => ~portal.escaped /\ portal.pc # "crashed"

\* C20: a rejected transport call is turned into a failure value by its
\* sender and the pipeline goes on: the console run displays a name and
\* registers its navigation watcher, the portal script keeps observing; a
\* request is sent once and never again, and no backoff delay follows it.
C20_TransportRejectionIsBenign ==
    /\ \A r \in Runs :
          /\ Len(runs[r].requests) <= 1
          /\ runs[r].response # "none" => runs[r].sleeps = <<>>
          /\ runs[r].response = "rejected"
                => /\ runs[r].pc = "done" /\ ~runs[r].escaped
                   /\ runs[r].watching
                   /\ runs[r].displayed \in {"Unknown Account", "pageAccountName"}
    /\ page.kind = "portal" =>
          /\ ~portal.sendEscaped
          /\ \A i \in 1..Len(portal.responses) :
                portal.responses[i] = "rejected"
                    => portal.results[i] = "{success:false,error}"
          /\ Len(portal.requests)
                = Cardinality({i \in 1..Len(portal.extractions) :
                                  portal.extractions[i].out = "accounts"})
          /\ Len(portal.responses) + portal.pending = Len(portal.requests)
          /\ Len(portal.timers) = portal.mutations
          /\ portal.responses # <<>> /\ portal.pc = "observing"
                => portal.observing

C20_Witness ==
    \E r \in Runs :
        /\ runs[r].response = "rejected"
        /\ runs[r].requests = <<"GET_ACCOUNT_NAME">>
        /\ runs[r].displayed = "Unknown Account"
        /\ runs[r].pc = "done"

\* run r is suspended in the delay between two attempts
Sleeping(r) == runs[r].pc = "sleeping"
\* the step starts at least one invocation of init()
Restarts == Len(runs') > Len(runs)
\* the number of probe calls an exhausted executor has made
FullBudget == ConsoleConfig.maxAttempts.v

\* C30: invocations do not cancel or share state with one another.  A
\* step that starts invocations leaves every existing one as it was, a
\* suspended one included, and the new ones start at attempt 0 with no
\* probe call made; every step advances at most one invocation, so no
\* attempt counter is shared; a suspended invocation's timer can always
\* fire; and an invocation that gives up has made all maxAttempts probe
\* calls of its own, whatever was started meanwhile.
C30_NoCrossCancellation ==
    /\ [][/\ Restarts =>
               /\ \A r \in Runs : runs'[r] = runs[r]
               /\ \A q \in (Len(runs) + 1)..Len(runs') :
                     runs'[q].attempt = 0 /\ runs'[q].nCalls = 0
          /\ \A r1, r2 \in Runs :
                (runs'[r1] # runs[r1] /\ runs'[r2] # runs[r2]) => r1 = r2]_vars
    /\ [](\A r \in Runs :
             /\ Sleeping(r) => ENABLED RunTimerFires(r)
             /\ GaveUp(r) => runs[r].nCalls = FullBudget)

\* Run r gave up after its five calls although run q was started while r
\* was suspended, and q then made its own five calls.
C30_Witness ==
    \E r, q \in Runs :
        /\ r \in runs[q].overtook
        /\ GaveUp(r) /\ runs[r].nCalls = FullBudget
        /\ GaveUp(q) /\ runs[q].nCalls = FullBudget
        /\ runs[r].sleeps = runs[q].sleeps /\ Len(runs[r].sleeps) = 4

\* the navigation watchers registered on the page: each is one
\* MutationObserver and one popstate listener
Watchers == Len(page.watchers)

\* C31: at most one navigation watcher is registered on the page, however
\* many runs of init() have completed, and no notified location change
\* starts more than one run.
C31_SingleWatcher ==
    /\ Watchers <= 1
    /\ \A i \in 1..Len(page.events) : page.events[i].started <= 1

\* run r has found the account element and read the page
ReadThePage(r) == runs[r].reads # <<>>
\* run r has ended, by returning or with an error
Ended(r) == runs[r].pc \in {"done", "rejected"}
\* a reader of run r found an account id or an account name on the page
FoundOnPage(r) ==
    \E i \in 1..Len(runs[r].reads) : runs[r].reads[i].out = "value"
\* The readers are called in the order id, name, the name only when no id
\* is on the page, and the request follows the reader that found a value.
ResolutionOrder(r) ==
    LET reads == runs[r].reads
    IN  /\ reads[1].fn = "getCurrentAccountId"
        /\ reads[1].out = "value"
              => Len(reads) = 1 /\ runs[r].requests = <<"GET_ACCOUNT_NAME">>
        /\ Len(reads) > 1
              => /\ Len(reads) = 2
                 /\ reads[1].out = "null"
                 /\ reads[2].fn = "getCurrentAccountName"
                 /\ reads[2].out = "value"
                       => runs[r].requests = <<"GET_ACCOUNT_BY_NAME">>
        /\ ~FoundOnPage(r) => runs[r].requests = <<>>

\* C33: a run that has found the account element reads the id and requests
\* the name by id, reads the name and requests the id by name only when no
\* id is on the page, and has rendered one display update when it ends.
C33_ResolveThenDisplayOnce ==
    \A r \in Runs :
        ReadThePage(r) =>
            /\ ResolutionOrder(r)
            /\ Ended(r) => runs[r].displayed # "none"

\* C33 as amended: the same order, and a run that ends has rendered one
\* display update when a reader found an id or a name on the page, and none
\* when neither is on the page or reading the page raised.
C33_ResolveThenDisplayIfFound ==
    \A r \in Runs :
        ReadThePage(r) =>
            /\ ResolutionOrder(r)
            /\ Ended(r) => (runs[r].displayed # "none" <=> FoundOnPage(r))

\* A run without an id on the page that found the name, asked for the id
\* by name and displayed the page's name.
C33_Witness ==
    \E r \in Runs :
        /\ runs[r].pc = "done"
        /\ runs[r].reads = <<Read("getCurrentAccountId", "null"),
                             Read("getCurrentAccountName", "value")>>
        /\ runs[r].requests = <<"GET_ACCOUNT_BY_NAME">>
        /\ runs[r].displayed = "pageAccountName"

\* init returned from its extraction, with or without accounts
InitExtracted ==
    /\ portal.extractions # <<>>
    /\ portal.extractions[1].out \in {"accounts", "empty"}

\* the n-th mutation has left accounts on a page whose extraction at load
\* found none
AccountsAppeared(n) ==
    /\ portal.mutations = n
    /\ portal.extractions[1].out = "empty"
    /\ portal.content = "accounts"

\* the debounced callback has extracted them and sent STORE_ACCOUNTS
AccountsSent ==
    /\ ~portal.debounce
    /\ portal.extractions # <<>>
    /\ portal.extractions[Len(portal.extractions)]
          = [by |-> "observer", out |-> "accounts", readyState |-> page.readyState]
    /\ portal.requests # <<>>

\* C35: the portal script registers its change observer exactly once per
\* page load, whether the extraction at load found accounts or none, and
\* never before init has run; and after an extraction at load that found
\* none, a mutation that leaves accounts on the page leads, once the
\* debounce timer has fired, to a re-extraction that finds them and sends
\* STORE_ACCOUNTS (unless a further mutation comes first).
C35_ObserverKeepsWorking ==
    /\ [](page.kind = "portal" =>
            /\ InitExtracted => portal.observers = 1 /\ portal.observing
            /\ portal.extractions = <<>> => portal.observers = 0
            /\ portal.observers <= 1)
    /\ \A n \in 1..MaxMutations :
          AccountsAppeared(n) ~> (portal.mutations > n \/ AccountsSent)

C35_Witness ==
    /\ page.kind = "portal"
    /\ portal.observers = 1
    /\ portal.extractions[1].out = "empty"
    /\ portal.mutations = 1
    /\ AccountsAppeared(1) /\ AccountsSent
    /\ portal.requests = <<"STORE_ACCOUNTS">>

\* C36: the portal script sends STORE_ACCOUNTS for an extraction exactly
\* when the extraction returned accounts, at load and in every debounced
\* re-extraction alike; an extraction that finds none sends nothing, and
\* nothing but an extraction sends.
C36_SendsIffNonEmpty ==
    [][page.kind = "portal" =>
          /\ Len(portal'.extractions) > Len(portal.extractions)
                => LET e == portal'.extractions[Len(portal'.extractions)]
                   IN IF e.out = "accounts"
                      THEN portal'.requests
                              = Append(portal.requests, "STORE_ACCOUNTS")
                      ELSE portal'.requests = portal.requests
          /\ Len(portal'.extractions) = Len(portal.extractions)
                => portal'.requests = portal.requests]_vars

\* an extraction at load without accounts, a re-extraction with accounts and
\* a re-extraction without: one message
C36_Witness ==
    /\ page.kind = "portal"
    /\ Len(portal.extractions) = 3
    /\ portal.extractions[1].by = "init" /\ portal.extractions[1].out = "empty"
    /\ portal.extractions[2].by = "observer"
    /\ portal.extractions[2].out = "accounts"
    /\ portal.extractions[3].by = "observer" /\ portal.extractions[3].out = "empty"
    /\ portal.requests = <<"STORE_ACCOUNTS">>

-----------------------------------------------------------------------------
(* SpecInject: injectAccountNameDisplay(accountName, accountId) run        *)
(* repeatedly on one account menu, with the same name or with another.     *)
(*                                                                         *)
(* A text is a sequence of pieces: "ID" is one occurrence of the substring *)
(* 'Account ID:', "x" is text without it, "N" and "M" are two account      *)
(* names, "$&" is that two-character sequence inside a name, ":" the       *)
(* appended colon.                                                         *)

TextPieces == {"ID", "x"}
Texts == UNION {[1..n -> TextPieces] : n \in 0..MaxPieces}
\* The menu button's text nodes in document order; none when
\* document.querySelector(CONSOLE_SELECTORS.accountMenu) is null.
MenuStates ==
    {[present |-> FALSE, nodes |-> <<>>]} \cup
    {[present |-> TRUE, nodes |-> ns] :
        ns \in UNION {[1..n -> Texts] : n \in 0..MaxNodes}}
\* The accountName arguments: a plain name, a name holding '$&', a name
\* holding 'Account ID:', and another plain name.
DisplayNames == {<<"N">>, <<"N", "$&">>, <<"N", "ID">>, <<"M">>}

\* node.textContent.includes('Account ID:')
IncludesMarker(text) == \E i \in 1..Len(text) : text[i] = "ID"

\* The replacement string accountName + ':' as String.prototype.replace
\* expands it: '$&' stands for the matched substring.
ExpandReplacement(name) ==
    [i \in 1..Len(name) |-> IF name[i] = "$&" THEN "ID" ELSE name[i]] \o <<":">>

\* text.replace('Account ID:', accountName + ':'): the first occurrence
ReplaceFirst(text, name) ==
    LET i == CHOOSE k \in 1..Len(text) :
                 text[k] = "ID" /\ \A j \in 1..(k - 1) : text[j] # "ID"
    IN  SubSeq(text, 1, i - 1) \o ExpandReplacement(name)
            \o SubSeq(text, i + 1, Len(text))

\* injectAccountNameDisplay: the first text node holding 'Account ID:' is
\* rewritten and the walk stops; any other menu is left as it is.
injectAccountNameDisplay(name, menu) ==
    IF ~menu.present \/ ~\E n \in 1..Len(menu.nodes) : IncludesMarker(menu.nodes[n])
    THEN menu
    ELSE LET n == CHOOSE k \in 1..Len(menu.nodes) :
                      /\ IncludesMarker(menu.nodes[k])
                      /\ \A j \in 1..(k - 1) : ~IncludesMarker(menu.nodes[j])
         IN  [menu EXCEPT !.nodes[n] = ReplaceFirst(@, name)]

CallInject(name) ==
    /\ dom.pc = "ready"
    /\ Len(dom.after) < MaxInjections
    /\ LET m == injectAccountNameDisplay(name, dom.menu)
       IN  dom' = [dom EXCEPT !.menu = m, !.after = Append(@, m),
                              !.names = Append(@, name)]

InitInject ==
    /\ \E m \in MenuStates :
          dom = [pc |-> "ready", names |-> <<>>, before |-> m, menu |-> m,
                 after |-> <<>>]
    /\ RetryIdle
    /\ PureIdle
    /\ GateIdle
    /\ PollIdle
    /\ PagesIdle
    /\ StoreIdle
    /\ WaitIdle
    /\ DebIdle

NextInject ==
    \E name \in DisplayNames :
        CallInject(name) /\ UNCHANGED <<retryVars, pureVars, gateVars, pollVars,
                                        pageVars, storeVars, waitVars, debVars>>

SpecInject == InitInject /\ [][NextInject]_vars

\* the number of account names in the menu's text
RECURSIVE CountIn(_, _)
CountIn(text, piece) ==
    IF text = <<>> THEN 0
    ELSE (IF Head(text) = piece THEN 1 ELSE 0) + CountIn(Tail(text), piece)
RECURSIVE NamesIn(_)
NamesIn(nodes) ==
    IF nodes = <<>> THEN 0
    ELSE CountIn(Head(nodes), "N") + CountIn(Head(nodes), "M")
            + NamesIn(Tail(nodes))

\* every run so far was handed the same name
SameArguments == \A i \in 1..Len(dom.names) : dom.names[i] = dom.names[1]

\* C21: running injectAccountNameDisplay a second time with the same
\* arguments leaves the menu as the first run left it, and the menu never
\* holds the account name more than once.
C21_InjectionIdempotent ==
    SameArguments =>
        /\ Len(dom.after) >= 2 => dom.after[2] = dom.after[1]
        /\ NamesIn(dom.before.nodes) = 0 => NamesIn(dom.menu.nodes) <= 1

\* the text nodes that the first run rewrote
Relabelled ==
    {k \in 1..Len(dom.before.nodes) :
        dom.after[1].nodes[k] # dom.before.nodes[k]}

\* C37: once a run has replaced the 'Account ID:' label, every later run
\* leaves the text of that label as the first run wrote it, whatever name
\* the later run is handed.
C37_LabelKeptAsFirstWritten ==
    \A i \in 2..Len(dom.after) :
        \A k \in Relabelled : dom.after[i].nodes[k] = dom.after[1].nodes[k]

-----------------------------------------------------------------------------
(* SpecStore: the storage service (storage.js, validation.js) and the      *)
(* message handler of the background worker (background.js) against        *)
(* chrome.storage.local.                                                   *)
(*                                                                         *)
(* A string is `lead` white-space characters, the characters of `body`,    *)
(* `fill` times the character 'z', and `trail` white-space characters; a   *)
(* string of white space only has all of it in `lead`.  An account id is   *)
(* known by its length, whether all its characters are ASCII digits, and   *)
(* a key telling ids of the same shape apart.  lastUpdated is left out.    *)

\* the length limit of an account name
NameCap == 256
\* the number of digits of an account id
IdLength == 12

JsNull == [t |-> "null", v |-> 0]
JsString(lead, body, fill, trail) ==
    [t |-> "string", lead |-> lead, body |-> body, fill |-> fill, trail |-> trail]
EmptyString == JsString(0, <<>>, 0, 0)
Word(body) == JsString(0, body, 0, 0)
JsId(len, digits, key) == [t |-> "string", len |-> len, digits |-> digits, key |-> key]

\* s.length
StrLength(s) == s.lead + Len(s.body) + s.fill + s.trail
\* s.trim()
Trim(s) == [s EXCEPT !.lead = 0, !.trail = 0]
\* s.substring(0, n)
Substring0(s, n) ==
    LET l == Min(s.lead, n)
        b == Min(Len(s.body), n - l)
        f == Min(s.fill, n - l - b)
        r == Min(s.trail, n - l - b - f)
    IN  JsString(l, SubSeq(s.body, 1, b), f, r)
\* s.toLowerCase()
LowerChar(c) == IF c = "A" THEN "a" ELSE IF c = "B" THEN "b" ELSE c
ToLowerCase(s) == [s EXCEPT !.body = [i \in 1..Len(s.body) |-> LowerChar(s.body[i])]]
\* the characters of s
Chars(s) ==
    [i \in 1..s.lead |-> " "] \o s.body \o [i \in 1..s.fill |-> "z"]
        \o [i \in 1..s.trail |-> " "]
\* s.includes(t)
Includes(s, t) ==
    LET cs == Chars(s)
        ct == Chars(t)
    IN  \E off \in 0..(Len(cs) - Len(ct)) :
            \A i \in 1..Len(ct) : cs[off + i] = ct[i]

\* typeof id === 'string' && /^\d{12}$/.test(id)
isValidAccountId(id) == id.t = "string" /\ id.len = IdLength /\ id.digits

\* typeof name === 'string' && name.trim().length > 0 && name.length <= 256
isValidAccountName(name) ==
    /\ name.t = "string"
    /\ StrLength(Trim(name)) > 0
    /\ StrLength(name) <= NameCap

\* name.trim().substring(0, 256), '' for a non-string
sanitizeAccountName_NoTrim(name) ==
    IF name.t # "string" THEN EmptyString ELSE Substring0(name, NameCap)

sanitizeAccountName(name) ==
    IF name.t # "string" THEN EmptyString ELSE Substring0(Trim(name), NameCap)

\* The object `validAccounts` as a sequence of entries in key order, which
\* for 12-character keys is insertion order.
KeyIndex(entries, id) ==
    IF \E i \in 1..Len(entries) : entries[i].accountId = id
    THEN CHOOSE i \in 1..Len(entries) : entries[i].accountId = id
    ELSE 0

\* validAccounts[account.accountId] = {...}
Put(entries, id, name) ==
    IF KeyIndex(entries, id) = 0
    THEN Append(entries, [accountId |-> id, accountName |-> name])
    ELSE [entries EXCEPT ![KeyIndex(entries, id)].accountName = name]

\* the for loop of storeAccounts over the records of the batch
RECURSIVE ValidAccounts_StopsAtInvalid(_, _)
ValidAccounts_StopsAtInvalid(accounts, acc) ==
    IF accounts = <<>> THEN acc
    ELSE LET a == Head(accounts)
         IN  IF isValidAccountId(a.accountId) /\ isValidAccountName(a.accountName)
             THEN ValidAccounts_StopsAtInvalid(Tail(accounts),
                     Put(acc, a.accountId, sanitizeAccountName(a.accountName)))
             ELSE acc

RECURSIVE ValidAccounts(_, _)
ValidAccounts(accounts, acc) ==
    IF accounts = <<>> THEN acc
    ELSE LET a == Head(accounts)
         IN  ValidAccounts(Tail(accounts),
                IF isValidAccountId(a.accountId) /\ isValidAccountName(a.accountName)
                THEN Put(acc, a.accountId, sanitizeAccountName(a.accountName))
                ELSE acc)

\* chrome.storage.local: whether the key 'accounts' is set, and its value.
StorageData(has, accounts) == [has |-> has, accounts |-> accounts]
EmptyStorage == StorageData(FALSE, <<>>)
\* result.accounts || {}
StoredAccounts(data) == IF data.has THEN data.accounts ELSE <<>>

\* The response objects; a field that is not set is Undefined.
Response(success, accountName, accountId, accounts, error) ==
    [success |-> success, accountName |-> accountName, accountId |-> accountId,
     accounts |-> accounts, error |-> error]
NoAccounts == <<[accountId |-> "none", accountName |-> "none"]>>

\* Each function below gives its response and the storage it leaves; ok
\* tells whether the chrome.storage.local call it makes is fulfilled.
storeAccounts_Merging(accounts, data, ok) ==
    IF ok
    THEN [result |-> Response(TRUE, Undefined, Undefined, NoAccounts, "none"),
          data |-> StorageData(TRUE, ValidAccounts(accounts, StoredAccounts(data)))]
    ELSE [result |-> Response(FALSE, Undefined, Undefined, NoAccounts, "error.message"),
          data |-> data]

storeAccounts_KeepsWhenNoneValid(accounts, data, ok) ==
    IF ok
    THEN [result |-> Response(TRUE, Undefined, Undefined, NoAccounts, "none"),
          data |-> IF ValidAccounts(accounts, <<>>) = <<>> THEN data
                   ELSE StorageData(TRUE, ValidAccounts(accounts, <<>>))]
    ELSE [result |-> Response(FALSE, Undefined, Undefined, NoAccounts, "error.message"),
          data |-> data]

storeAccounts(accounts, data, ok) ==
    IF ok
    THEN [result |-> Response(TRUE, Undefined, Undefined, NoAccounts, "none"),
          data |-> StorageData(TRUE, ValidAccounts(accounts, <<>>))]
    ELSE [result |-> Response(FALSE, Undefined, Undefined, NoAccounts, "error.message"),
          data |-> data]

getAccountName(accountId, data, ok) ==
    IF ~isValidAccountId(accountId)
    THEN [result |-> Response(FALSE, JsNull, Undefined, NoAccounts, "Invalid account ID"),
          data |-> data]
    ELSE IF ~ok
    THEN [result |-> Response(FALSE, JsNull, Undefined, NoAccounts, "error.message"),
          data |-> data]
    ELSE LET accounts == StoredAccounts(data)
             i == KeyIndex(accounts, accountId)
         IN  [result |-> Response(TRUE,
                                  IF i = 0 THEN JsNull ELSE accounts[i].accountName,
                                  Undefined, NoAccounts, "none"),
              data |-> data]

getAllAccounts(data, ok) ==
    IF ok
    THEN [result |-> Response(TRUE, Undefined, Undefined, StoredAccounts(data), "none"),
          data |-> data]
    ELSE [result |-> Response(FALSE, Undefined, Undefined, <<>>, "error.message"),
          data |-> data]

clearAllAccounts_KeepsAccounts(data, ok) ==
    IF ok
    THEN [result |-> Response(TRUE, Undefined, Undefined, NoAccounts, "none"),
          data |-> data]
    ELSE [result |-> Response(FALSE, Undefined, Undefined, NoAccounts, "error.message"),
          data |-> data]

clearAllAccounts(data, ok) ==
    IF ok
    THEN [result |-> Response(TRUE, Undefined, Undefined, NoAccounts, "none"),
          data |-> EmptyStorage]
    ELSE [result |-> Response(FALSE, Undefined, Undefined, NoAccounts, "error.message"),
          data |-> data]

\* account.accountName.toLowerCase().trim() === searchName
ExactMatch(entry, searchName) == Trim(ToLowerCase(entry.accountName)) = searchName
\* the two includes tests of the second loop
PartialMatch(entry, searchName) ==
    \/ Includes(ToLowerCase(entry.accountName), searchName)
    \/ Includes(searchName, ToLowerCase(entry.accountName))
\* the first entry, in key order, that passes the test
FirstExact(accounts, q) ==
    IF \E i \in 1..Len(accounts) : ExactMatch(accounts[i], q)
    THEN CHOOSE i \in 1..Len(accounts) :
            /\ ExactMatch(accounts[i], q)
            /\ \A j \in 1..(i - 1) : ~ExactMatch(accounts[j], q)
    ELSE 0
FirstPartial(accounts, q) ==
    IF \E i \in 1..Len(accounts) : PartialMatch(accounts[i], q)
    THEN CHOOSE i \in 1..Len(accounts) :
            /\ PartialMatch(accounts[i], q)
            /\ \A j \in 1..(i - 1) : ~PartialMatch(accounts[j], q)
    ELSE 0
Found(accounts, i) ==
    Response(TRUE, accounts[i].accountName, accounts[i].accountId, NoAccounts, "none")

getAccountByName_PartialFirst(accountName, data, ok) ==
    IF ~ok \/ accountName.t # "string"
    THEN [result |-> Response(FALSE, Undefined, JsNull, NoAccounts, "error.message"),
          data |-> data]
    ELSE LET accounts == StoredAccounts(data)
             searchName == Trim(ToLowerCase(accountName))
         IN  [result |->
                 IF FirstPartial(accounts, searchName) # 0
                 THEN Found(accounts, FirstPartial(accounts, searchName))
                 ELSE IF FirstExact(accounts, searchName) # 0
                 THEN Found(accounts, FirstExact(accounts, searchName))
                 ELSE Response(TRUE, Undefined, JsNull, NoAccounts, "none"),
              data |-> data]

\* A storage failure, or a name without toLowerCase (not a string), ends
\* in the catch block.
getAccountByName(accountName, data, ok) ==
    IF ~ok \/ accountName.t # "string"
    THEN [result |-> Response(FALSE, Undefined, JsNull, NoAccounts, "error.message"),
          data |-> data]
    ELSE LET accounts == StoredAccounts(data)
             searchName == Trim(ToLowerCase(accountName))
         IN  [result |->
                 IF FirstExact(accounts, searchName) # 0
                 THEN Found(accounts, FirstExact(accounts, searchName))
                 ELSE IF FirstPartial(accounts, searchName) # 0
                 THEN Found(accounts, FirstPartial(accounts, searchName))
                 ELSE Response(TRUE, Undefined, JsNull, NoAccounts, "none"),
              data |-> data]

\* Messages: null, or an object with the fields type, accounts, accountId,
\* accountName (Undefined when missing).  accounts is an array of records
\* or another value.
NullMessage == [t |-> "null", type |-> "none", accounts |-> Undefined,
                accountId |-> Undefined, accountName |-> Undefined]
Message(type, accounts, accountId, accountName) ==
    [t |-> "object", type |-> type, accounts |-> accounts,
     accountId |-> accountId, accountName |-> accountName]
JsArray(items) == [t |-> "array", items |-> items]

\* !message.accountId, !message.accountName
FalsyId(v) ==
    \/ v.t \in {"undefined", "null"}
    \/ (v.t = "num" /\ v.v = 0)
    \/ (v.t = "string" /\ v.len = 0)
FalsyName(v) ==
    v.t \in {"undefined", "null"} \/ (v.t = "string" /\ StrLength(v) = 0)

\* Array.isArray(message.accounts)
IsArray_Always(v) == TRUE

IsArray(v) == v.t = "array"

\* for (const account of accounts) over a value that is not an array: the
\* characters of a string, none of which is a record with valid fields.
Items(v) == IF v.t = "array" THEN v.items ELSE <<>>

handleMessage(message, data, ok) ==
    IF message.t = "null" \/ message.type = "undefined"
    THEN [result |-> Response(FALSE, Undefined, Undefined, NoAccounts,
                              "Invalid message format"),
          data |-> data]
    ELSE CASE message.type = "STORE_ACCOUNTS" ->
                IF ~IsArray(message.accounts)
                THEN [result |-> Response(FALSE, Undefined, Undefined, NoAccounts,
                                          "Accounts must be an array"),
                      data |-> data]
                ELSE storeAccounts(Items(message.accounts), data, ok)
           [] message.type = "GET_ACCOUNT_NAME" ->
                IF FalsyId(message.accountId)
                THEN [result |-> Response(FALSE, JsNull, Undefined, NoAccounts,
                                          "Account ID required"),
                      data |-> data]
                ELSE getAccountName(message.accountId, data, ok)
           [] message.type = "GET_ACCOUNT_BY_NAME" ->
                IF FalsyName(message.accountName)
                THEN [result |-> Response(FALSE, Undefined, JsNull, NoAccounts,
                                          "Account name required"),
                      data |-> data]
                ELSE getAccountByName(message.accountName, data, ok)
           [] message.type = "CLEAR_DATA" -> clearAllAccounts(data, ok)
           [] OTHER ->
                [result |-> Response(FALSE, Undefined, Undefined, NoAccounts,
                                     "Unknown message type"),
                 data |-> data]

\* Inputs.  Ids: two well-formed ones, then 11 digits, 13 digits, 12
\* characters with a letter, the empty string, a number, a missing field.
Id1 == JsId(IdLength, TRUE, 1)
Id2 == JsId(IdLength, TRUE, 2)
IdArgs ==
    {Id1, Id2, JsId(IdLength - 1, TRUE, 1), JsId(IdLength + 1, TRUE, 1),
     JsId(IdLength, FALSE, 1), JsId(0, TRUE, 0), Num(123), Undefined}
\* Names: 'a', 'A', 'ab', ' a ', '', two blanks, 256 characters, 257
\* characters, a blank followed by 256 characters, a number, a missing field.
NameArgs ==
    {Word(<<"a">>), Word(<<"A">>), Word(<<"a", "b">>), JsString(1, <<"a">>, 0, 1),
     EmptyString, JsString(2, <<>>, 0, 0),
     JsString(0, <<"a">>, NameCap - 1, 0), JsString(0, <<"a">>, NameCap, 0),
     JsString(1, <<"a">>, NameCap - 1, 0), Num(123), Undefined}
Record(id, name) == [accountId |-> id, accountName |-> name]
\* the records of the one-record batches: every id with a good name, every
\* name with a good id, and a record with both fields bad
SingleRecords ==
    {Record(id, Word(<<"a">>)) : id \in IdArgs}
        \cup {Record(Id1, name) : name \in NameArgs}
        \cup {Record(Undefined, Undefined)}
\* the records of the batches with more than one record
PairRecords ==
    {Record(Id1, Word(<<"a", "b">>)), Record(Id2, Word(<<"a">>)),
     Record(Id1, JsString(1, <<"A">>, 0, 1)),
     Record(JsId(IdLength - 1, TRUE, 1), Word(<<"a">>))}
BatchArgs ==
    {<<>>} \cup {<<r>> : r \in SingleRecords}
        \cup UNION {[1..n -> PairRecords] : n \in 2..MaxBatch}
QueryArgs ==
    {Word(<<"A">>), Word(<<"b">>), JsString(1, <<"a">>, 0, 1), Word(<<"a", "b">>),
     Word(<<"B", "a">>), JsString(2, <<>>, 0, 0), Num(123)}
MessageArgs ==
    {NullMessage,
     Message("undefined", Undefined, Undefined, Undefined),
     Message("UNKNOWN_TYPE", Undefined, Undefined, Undefined),
     Message("CLEAR_DATA", Undefined, Undefined, Undefined)}
      \cup {Message("STORE_ACCOUNTS", a, Undefined, Undefined) :
               a \in {Undefined, Word(<<"a">>), JsArray(<<>>),
                      JsArray(<<Record(Id1, Word(<<"a">>))>>),
                      JsArray(<<Record(Id2, EmptyString)>>),
                      JsArray(<<Record(Id2, Word(<<"a", "b">>)),
                                Record(Id2, EmptyString)>>)}}
      \cup {Message("GET_ACCOUNT_NAME", Undefined, id, Undefined) : id \in IdArgs}
      \cup {Message("GET_ACCOUNT_BY_NAME", Undefined, Undefined, n) :
               n \in {Undefined, EmptyString, Word(<<"A">>), Word(<<"b">>)}}

\* the ids that are keys of the stored object
Keys(data) == {StoredAccounts(data)[i].accountId : i \in 1..Len(StoredAccounts(data))}

\* The call `op(a)` is made and answered r: the storage it leaves, and the
\* record of the call (a is the id, name or message; the batch of a
\* successful store is kept in `batch`).  mutation names what a successful
\* call did to the storage: "store", "clear" or "none".
Answer(op, a, ok, r, mutation, batch) ==
    store' = [store EXCEPT
                 !.data = r.data,
                 !.last = [op |-> op, arg |-> a, ok |-> ok, result |-> r.result],
                 !.lastMut = IF r.result.success /\ mutation # "none"
                             THEN mutation ELSE @,
                 !.batch = IF r.result.success /\ mutation # "none"
                           THEN batch ELSE @,
                 !.ever = @ \cup Keys(r.data)]

CallStoreAccounts(batch, ok) ==
    /\ store.pc = "ready"
    /\ Answer("storeAccounts", Undefined, ok,
              storeAccounts(batch, store.data, ok), "store", batch)

CallGetAccountName(id, ok) ==
    /\ store.pc = "ready"
    /\ Answer("getAccountName", id, ok, getAccountName(id, store.data, ok),
              "none", <<>>)

CallGetAllAccounts(ok) ==
    /\ store.pc = "ready"
    /\ Answer("getAllAccounts", Undefined, ok, getAllAccounts(store.data, ok),
              "none", <<>>)

CallClearAllAccounts(ok) ==
    /\ store.pc = "ready"
    /\ Answer("clearAllAccounts", Undefined, ok, clearAllAccounts(store.data, ok),
              "clear", <<>>)

CallGetAccountByName(name, ok) ==
    /\ store.pc = "ready"
    /\ Answer("getAccountByName", name, ok, getAccountByName(name, store.data, ok),
              "none", <<>>)

\* what a message does to the storage when it succeeds
MutationOf(message) ==
    IF message.t = "object" /\ message.type = "STORE_ACCOUNTS" THEN "store"
    ELSE IF message.t = "object" /\ message.type = "CLEAR_DATA" THEN "clear"
    ELSE "none"

CallHandleMessage(message, ok) ==
    /\ store.pc = "ready"
    /\ Answer("handleMessage", message, ok, handleMessage(message, store.data, ok),
              MutationOf(message), Items(message.accounts))

InitStore ==
    /\ store = [pc |-> "ready", data |-> EmptyStorage,
                last |-> [op |-> "none", arg |-> Undefined, ok |-> TRUE,
                          result |-> Response(TRUE, Undefined, Undefined,
                                              NoAccounts, "none")],
                lastMut |-> "none", batch |-> <<>>, ever |-> {}]
    /\ RetryIdle
    /\ PureIdle
    /\ GateIdle
    /\ PollIdle
    /\ PagesIdle
    /\ DomIdle
    /\ WaitIdle
    /\ DebIdle

StoreOthers == <<retryVars, pureVars, gateVars, pollVars, pageVars, domVars,
                 waitVars, debVars>>

NextStore ==
    \/ \E batch \in BatchArgs, ok \in BOOLEAN :
          CallStoreAccounts(batch, ok) /\ UNCHANGED StoreOthers
    \/ \E id \in IdArgs, ok \in BOOLEAN :
          CallGetAccountName(id, ok) /\ UNCHANGED StoreOthers
    \/ \E ok \in BOOLEAN : CallGetAllAccounts(ok) /\ UNCHANGED StoreOthers
    \/ \E ok \in BOOLEAN : CallClearAllAccounts(ok) /\ UNCHANGED StoreOthers
    \/ \E name \in QueryArgs, ok \in BOOLEAN :
          CallGetAccountByName(name, ok) /\ UNCHANGED StoreOthers
    \/ \E message \in MessageArgs, ok \in BOOLEAN :
          CallHandleMessage(message, ok) /\ UNCHANGED StoreOthers

SpecStore == InitStore /\ [][NextStore]_vars

\* What getAccountName(id) answers in the current state.
Lookup(id) == getAccountName(id, store.data, TRUE).result
\* record i of the batch passes both validators
ValidRecord(r) == isValidAccountId(r.accountId) /\ isValidAccountName(r.accountName)
ValidIds(batch) == {batch[i].accountId : i \in {j \in 1..Len(batch) : ValidRecord(batch[j])}}
UniqueIds(batch) ==
    \A i, j \in 1..Len(batch) : i # j => batch[i].accountId # batch[j].accountId
\* the latest successful change of the storage was storeAccounts(store.batch)
JustStored == store.lastMut = "store"
\* the name the batch gives to id: that of its last valid record with the id
NameIn(batch, id) ==
    LET k == CHOOSE i \in 1..Len(batch) :
                 /\ ValidRecord(batch[i]) /\ batch[i].accountId = id
                 /\ \A j \in (i + 1)..Len(batch) :
                       ~(ValidRecord(batch[j]) /\ batch[j].accountId = id)
    IN  Substring0(Trim(batch[k].accountName), 256)

\* C22: after a successful storeAccounts(M) with unique ids, getAccountName
\* of every valid record's id succeeds with the record's name, trimmed and
\* cut to 256 characters.
C22_StorageRoundTrip ==
    (JustStored /\ UniqueIds(store.batch)) =>
        \A i \in 1..Len(store.batch) :
            ValidRecord(store.batch[i]) =>
                /\ Lookup(store.batch[i].accountId).success
                /\ Lookup(store.batch[i].accountId).accountName
                      = Substring0(Trim(store.batch[i].accountName), 256)

C22_Witness ==
    /\ JustStored
    /\ store.batch = <<Record(Id1, JsString(1, <<"a">>, 0, 1))>>
    /\ store.last.op = "getAccountName"
    /\ store.last.result.success
    /\ store.last.result.accountName = Word(<<"a">>)

\* C23: after a successful storeAccounts(B), whatever was stored before,
\* the resolvable ids are exactly the ids of B's valid records, each with
\* B's name, and every other id stored earlier resolves to null.
C23_ReplaceSemantics ==
    JustStored =>
        /\ Keys(store.data) = ValidIds(store.batch)
        /\ \A id \in ValidIds(store.batch) :
              Lookup(id).accountName = NameIn(store.batch, id)
        /\ \A id \in store.ever \ ValidIds(store.batch) :
              Lookup(id).success /\ Lookup(id).accountName = JsNull

C23_Witness ==
    /\ JustStored
    /\ Id2 \in store.ever
    /\ ValidIds(store.batch) = {Id1}
    /\ Lookup(Id2).accountName = JsNull
    /\ Lookup(Id1).accountName = Word(<<"a", "b">>)

\* the last call was handleMessage with a STORE_ACCOUNTS message whose
\* payload is an array without a valid record, and the storage write was
\* fulfilled
StoredNoValidRecord ==
    /\ store.last.op = "handleMessage" /\ store.last.ok
    /\ store.last.arg.t = "object" /\ store.last.arg.type = "STORE_ACCOUNTS"
    /\ IsArray(store.last.arg.accounts)
    /\ \A i \in 1..Len(Items(store.last.arg.accounts)) :
          ~ValidRecord(Items(store.last.arg.accounts)[i])

\* C39: a STORE_ACCOUNTS batch without a valid record, the empty array
\* included, is answered with success and leaves an empty mapping stored:
\* every id stored at any time before resolves to null and getAllAccounts
\* gives the empty mapping.
C39_EmptyBatchClears ==
    StoredNoValidRecord =>
        /\ store.last.result.success
        /\ store.data = StorageData(TRUE, <<>>)
        /\ \A id \in store.ever :
              Lookup(id).success /\ Lookup(id).accountName = JsNull
        /\ getAllAccounts(store.data, TRUE).result.accounts = <<>>

C39_Witness ==
    /\ StoredNoValidRecord
    /\ store.last.arg.accounts = JsArray(<<Record(Id2, EmptyString)>>)
    /\ Id1 \in store.ever
    /\ Lookup(Id1).accountName = JsNull
    /\ store.last.result.success

\* C24: after a successful clearAllAccounts(), every id stored at any time
\* before resolves to null and getAllAccounts gives the empty mapping.
C24_ClearTotality ==
    store.lastMut = "clear" =>
        /\ \A id \in store.ever :
              Lookup(id).success /\ Lookup(id).accountName = JsNull
        /\ getAllAccounts(store.data, TRUE).result.success
        /\ getAllAccounts(store.data, TRUE).result.accounts = <<>>

C24_Witness ==
    /\ store.lastMut = "clear"
    /\ store.ever = {Id1, Id2}
    /\ store.last.op = "getAllAccounts"
    /\ store.last.result.accounts = <<>>

\* C25: a storeAccounts call whose storage write is fulfilled reports
\* success whatever the records are; the invalid records of the batch are
\* dropped and every valid record of the same batch is stored.
C25_MalformedRecordsDropped ==
    /\ (store.last.op = "storeAccounts" /\ store.last.ok)
          => store.last.result.success /\ JustStored
    /\ JustStored =>
          \A i \in 1..Len(store.batch) :
              IF ValidRecord(store.batch[i])
              THEN store.batch[i].accountId \in Keys(store.data)
              ELSE \/ store.batch[i].accountId \notin Keys(store.data)
                   \/ \E j \in 1..Len(store.batch) :
                         /\ ValidRecord(store.batch[j])
                         /\ store.batch[j].accountId = store.batch[i].accountId

C25_Witness ==
    /\ store.last.op = "storeAccounts" /\ store.last.result.success
    /\ store.batch = <<Record(JsId(IdLength - 1, TRUE, 1), Word(<<"a">>)),
                       Record(Id2, Word(<<"a">>))>>
    /\ Keys(store.data) = {Id2}

\* C26: a record is accepted for storage exactly when its id is a string
\* of 12 digits and its name is a string whose trimmed form is non-empty
\* and at most 256 characters long.
C26_AcceptanceLaw ==
    (JustStored /\ Len(store.batch) = 1) =>
        LET r == store.batch[1]
        IN  (Keys(store.data) # {})
               <=> /\ r.accountId.t = "string"
                   /\ r.accountId.len = 12 /\ r.accountId.digits
                   /\ r.accountName.t = "string"
                   /\ StrLength(Trim(r.accountName)) > 0
                   /\ StrLength(Trim(r.accountName)) <= 256

\* the last call was getAccountByName(q) with a string q and a working
\* storage
AnsweredByName ==
    /\ store.last.op = "getAccountByName"
    /\ store.last.ok /\ store.last.arg.t = "string"
\* the ids of the stored mappings whose name equals q but for case and
\* surrounding blanks / whose name contains q or is contained in it
ExactIds(q) ==
    {e.accountId : e \in {StoredAccounts(store.data)[i] :
                             i \in {j \in 1..Len(StoredAccounts(store.data)) :
                                      ExactMatch(StoredAccounts(store.data)[j], q)}}}
PartialIds(q) ==
    {e.accountId : e \in {StoredAccounts(store.data)[i] :
                             i \in {j \in 1..Len(StoredAccounts(store.data)) :
                                      PartialMatch(StoredAccounts(store.data)[j], q)}}}

\* C27: getAccountByName(name) answers the id of a stored mapping whose
\* name equals the lower-cased, trimmed query whenever there is one; if
\* there is none, the id of a mapping whose name contains the query or is
\* contained in it; if there is none either, success with accountId null.
C27_ExactBeforePartial ==
    AnsweredByName =>
        LET q == Trim(ToLowerCase(store.last.arg))
            r == store.last.result
        IN  /\ r.success
            /\ ExactIds(q) # {} => r.accountId \in ExactIds(q)
            /\ (ExactIds(q) = {} /\ PartialIds(q) # {})
                  => r.accountId \in PartialIds(q)
            /\ (ExactIds(q) = {} /\ PartialIds(q) = {}) => r.accountId = JsNull

C27_Witness ==
    /\ AnsweredByName
    /\ store.last.arg = Word(<<"A">>)
    /\ Len(StoredAccounts(store.data)) = 2
    /\ StoredAccounts(store.data)[1] = Record(Id1, Word(<<"a", "b">>))
    /\ StoredAccounts(store.data)[2] = Record(Id2, Word(<<"a">>))
    /\ store.last.result.accountId = Id2

\* the messages handleMessage must refuse
Refused(m) ==
    \/ m.t = "null"
    \/ m.type \in {"undefined", "UNKNOWN_TYPE"}
    \/ m.type = "STORE_ACCOUNTS" /\ m.accounts.t # "array"
    \/ m.type = "GET_ACCOUNT_NAME"
          /\ (m.accountId.t # "string" \/ m.accountId.len # 12 \/ ~m.accountId.digits)
    \/ m.type = "GET_ACCOUNT_BY_NAME" /\ m.accountName.t = "undefined"

\* C28: handleMessage answers a refused message with {success: false,
\* error} and leaves the storage as it was; a handleMessage call changes
\* the storage only for STORE_ACCOUNTS with an array and for CLEAR_DATA.
C28_HandleMessageFrame ==
    [][store'.last.op = "handleMessage" =>
          /\ Refused(store'.last.arg)
                => /\ ~store'.last.result.success
                   /\ store'.last.result.error # "none"
                   /\ store'.data = store.data
          /\ store'.data # store.data
                => \/ /\ store'.last.arg.type = "STORE_ACCOUNTS"
                      /\ store'.last.arg.accounts.t = "array"
                   \/ store'.last.arg.type = "CLEAR_DATA"]_vars

C28_Witness ==
    /\ store.last.op = "handleMessage"
    /\ store.last.arg = Message("STORE_ACCOUNTS", Word(<<"a">>), Undefined, Undefined)
    /\ store.last.result.error = "Accounts must be an array"
    /\ Keys(store.data) = {Id1, Id2}

-----------------------------------------------------------------------------
(* waitForAccountElement(timeout), console-content.js                      *)

\* CONFIG.waitTimeout and CONFIG.pollInterval, in milliseconds
CONFIG_waitTimeout == 5000
CONFIG_pollInterval == 100

\* The timeouts a caller passes; undefined takes the parameter's default.
WaitTimeoutArgs == {Undefined, Num(0), Num(250), Num(1000), Num(5000), Num(6000)}

\* async function waitForAccountElement(timeout = CONFIG.waitTimeout)
TimeoutOrDefault(timeout) ==
    IF timeout.t = "undefined" THEN CONFIG_waitTimeout ELSE timeout.v

\* const retryFn = retryUtils?.retryWithBackoff || window.retryWithBackoff;
\* if (!retryFn) takes the polling path.
PathOf(hasRetryFn) == IF hasRetryFn THEN "retry" ELSE "poll"

\* if (Date.now() - startTime >= timeout)
TimedOut(elapsed, timeout) == elapsed >= timeout

\* One look at the DOM at time at, by check() on the polling path and by
\* one attempt of retryWithBackoff on the retry path.  The element ends the
\* wait; without it the polling path resolves null once the timeout has
\* passed and sets a timer of CONFIG.pollInterval otherwise, and the retry
\* path sets a timer of calculateDelay(attempt, config) unless the attempt
\* was the last, after which it returns lastResult (null).
Probe(w, at, present) ==
    IF Truthy(ProbeResult(present))
    THEN [w EXCEPT !.pc = "done", !.now = at, !.result = ProbeResult(present)]
    ELSE IF w.path = "poll"
    THEN IF TimedOut(at, w.timeout)
         THEN [w EXCEPT !.pc = "done", !.now = at, !.result = "null"]
         ELSE [w EXCEPT !.pc = "waiting", !.now = at,
                        !.due = at + CONFIG_pollInterval]
    ELSE IF NotLastAttempt(w.attempt, ConsoleConfig)
         THEN [w EXCEPT !.pc = "waiting", !.now = at,
                        !.due = at + calculateDelay(w.attempt, ConsoleConfig).v]
         ELSE [w EXCEPT !.pc = "done", !.now = at, !.result = "null"]

\* A call: startTime is the origin of the clock, and the first look at the
\* DOM happens before the call returns its promise.
CallWaitForAccountElement(timeout, hasRetryFn, present) ==
    /\ waiter.pc \in {"ready", "done"}
    /\ waiter' = Probe([pc |-> "ready", path |-> PathOf(hasRetryFn),
                        arg |-> timeout, timeout |-> TimeoutOrDefault(timeout),
                        attempt |-> 0, now |-> 0, due |-> 0, drift |-> 0,
                        result |-> "pending"],
                       0, present)

\* The timer set by the last look fires, late ms after it was due, and the
\* next look happens: check() again, or the next attempt of the loop.
WaitTimerFires(late, present) ==
    /\ waiter.pc = "waiting"
    /\ waiter.drift + late <= MaxDrift
    /\ waiter' = Probe([waiter EXCEPT !.attempt = @ + 1, !.drift = @ + late],
                       waiter.due + late, present)

InitWait ==
    /\ waiter = [pc |-> "ready", path |-> "poll", arg |-> Undefined,
                 timeout |-> CONFIG_waitTimeout, attempt |-> 0, now |-> 0,
                 due |-> 0, drift |-> 0, result |-> "pending"]
    /\ RetryIdle
    /\ PureIdle
    /\ GateIdle
    /\ PollIdle
    /\ PagesIdle
    /\ DomIdle
    /\ StoreIdle
    /\ DebIdle

WaitOthers == <<retryVars, pureVars, gateVars, pollVars, pageVars, domVars,
                storeVars, debVars>>

NextWait ==
    \/ \E timeout \in WaitTimeoutArgs, hasRetryFn \in BOOLEAN, present \in BOOLEAN :
          CallWaitForAccountElement(timeout, hasRetryFn, present)
             /\ UNCHANGED WaitOthers
    \/ \E late \in 0..MaxLate, present \in BOOLEAN :
          WaitTimerFires(late, present) /\ UNCHANGED WaitOthers

SpecWait == InitWait /\ [][NextWait]_vars

\* the wait ended without the element
ResolvedNull == waiter.pc = "done" /\ waiter.result = "null"

\* C29: a wait that ends without the element has lasted at most timeout ms
\* plus one scheduling interval (and the lateness of its timers), on the
\* polling path and on the retry path alike.
C29_WaitBoundedByTimeout ==
    ResolvedNull =>
        waiter.now - waiter.drift <= waiter.timeout + CONFIG_pollInterval

-----------------------------------------------------------------------------
(* SpecDebounce: the MutationObserver registered by observePortalChanges   *)
(* in time.  Notifications arrive at arbitrary instants; the debounce      *)
(* timer is taken to fire when it is due, so a notification that arrives   *)
(* at the due instant or later finds that the callback has already run.    *)

\* ms between one event of the observer (a notification or a firing of the
\* timer) and the next notification
Gaps == {1, 250, 499, 500, 750}

\* clearTimeout(observer._debounceTimer): the timer with that handle, if it
\* is still pending, is removed; an undefined or stale handle removes nothing
clearTimeout_Ignored(timers, handle) == timers

clearTimeout(timers, handle) == {t \in timers : t.id # handle}

\* new MutationObserver((mutations) => { clearTimeout(...); ... = setTimeout(
\* () => { callback(); }, 500); }): one notification, gap ms after the last
\* event
Notify(gap) ==
    /\ observer.pc = "observing"
    /\ Len(observer.notes) < MaxNotifications
    /\ LET at == observer.now + gap
           id == observer.ids + 1
       IN /\ \A t \in observer.timers : t.due > at
          /\ observer' = [observer EXCEPT
                 !.now = at,
                 !.notes = Append(@, at),
                 !.ids = id,
                 !.handle = id,
                 !.timers = clearTimeout(@, observer.handle)
                               \cup {[id |-> id, due |-> at + DebounceMs]}]

\* The earliest pending timer fires: callback() runs.  The handle is left
\* as it is.
DebounceTimerFires ==
    /\ observer.pc = "observing"
    /\ \E t \in observer.timers :
          /\ \A u \in observer.timers : t.due <= u.due
          /\ observer' = [observer EXCEPT
                 !.now = t.due,
                 !.timers = @ \ {t},
                 !.ran = Append(@, t.due)]

InitDebounce ==
    /\ observer = [pc |-> "observing", now |-> 0, handle |-> 0, ids |-> 0,
                   timers |-> {}, notes |-> <<>>, ran |-> <<>>]
    /\ RetryIdle
    /\ PureIdle
    /\ GateIdle
    /\ PollIdle
    /\ PagesIdle
    /\ DomIdle
    /\ StoreIdle
    /\ WaitIdle

DebOthers == <<retryVars, pureVars, gateVars, pollVars, pageVars, domVars,
               storeVars, waitVars>>

NextDebounce ==
    \/ \E gap \in Gaps : Notify(gap) /\ UNCHANGED DebOthers
    \/ DebounceTimerFires /\ UNCHANGED DebOthers

SpecDebounce == InitDebounce /\ [][NextDebounce]_vars

\* the notifications that end a burst: the next one, if any, comes 500 ms
\* later or more
BurstEnds ==
    {i \in 1..Len(observer.notes) :
        \/ i = Len(observer.notes)
        \/ observer.notes[i + 1] - observer.notes[i] >= DebounceMs}

\* the bursts whose timer is no longer pending
BurstsOver ==
    {i \in BurstEnds : i < Len(observer.notes) \/ observer.timers = {}}

\* C34: re-extraction is debounced.  At most one debounce timer is pending
\* at any time, it is due 500 ms after the latest notification, and for
\* every burst of notifications less than 500 ms apart the callback has run
\* exactly once, 500 ms after the last notification of the burst, and never
\* otherwise.
C34_Debounced ==
    observer.pc = "observing" =>
        /\ Cardinality(observer.timers) <= 1
        /\ \A t \in observer.timers :
              t.due = observer.notes[Len(observer.notes)] + DebounceMs
        /\ Len(observer.ran) = Cardinality(BurstsOver)
        /\ \A i \in BurstsOver :
              Cardinality({j \in 1..Len(observer.ran) :
                              observer.ran[j] = observer.notes[i] + DebounceMs}) = 1

\* a burst of two notifications and then a single one, both callbacks run
C34_Witness ==
    /\ observer.pc = "observing"
    /\ Len(observer.notes) = 3
    /\ observer.notes[2] - observer.notes[1] < DebounceMs
    /\ observer.notes[3] - observer.notes[2] >= DebounceMs
    /\ observer.ran = <<observer.notes[2] + DebounceMs,
                        observer.notes[3] + DebounceMs>>

=============================================================================
